---- MODULE Spec2Model ----
(***************************************************************************)
(* A model of mmd2drawio.py: the MermaidToDrawioConverter instance (its    *)
(* two id counters and its recorded flow direction), the four line-level   *)
(* extractors, the level computation and the drivers that call them.       *)
(*                                                                         *)
(* Text is modelled character by character: a line is a sequence of        *)
(* one-character strings and a diagram source is the sequence of its       *)
(* lines (the result of split('\n')).  The regular expressions of the      *)
(* source are written as syntax trees and matched by a backtracking        *)
(* matcher that tries alternatives in the order Python's re module does.   *)
(***************************************************************************)
EXTENDS Integers, Sequences, FiniteSets, TLC

VARIABLES
    node_counter,    \* self.node_counter
    edge_counter,    \* self.edge_counter
    flow_direction,  \* self.flow_direction, "unset" until a flowchart is parsed
    pc,              \* where the program is
    text,            \* the source being converted, as the sequence of its lines
    result,          \* what convert_mermaid_to_drawio returned
    files,           \* convert_multiple_files: the sources of mmd_files
    pages,           \* convert_multiple_files: the diagram elements under root
    kind,            \* the extractor that is being fed lines
    parser,          \* the locals of that extractor: nodes, edges, ...
    fed,             \* the number of lines it has been fed
    expect,          \* what the author of the lines fed so far means by them
    levelling,       \* the locals of _calculate_node_levels
    token,           \* parse_node_shape: the node_text it is called with
    shaped,          \* parse_node_shape: the (label, style) it returned
    again,           \* parse_node_shape: what it returned for that label
    driver,          \* the caller that converts a batch of files
    outputs,         \* the .drawio files written by the batch
    log              \* what the batch has reported about its files

vars == <<node_counter, edge_counter, flow_direction, pc, text, result, files, pages,
          kind, parser, fed, expect, levelling, token, shaped, again, driver, outputs,
          log>>

\* the variables of the classifier and of the batch drivers
others == <<token, shaped, again, driver, outputs, log>>

(***************************************************************************)
(* Characters and strings                                                  *)
(***************************************************************************)

\* str -> the sequence of its characters
Chars(str) == [i \in 1..Len(str) |-> SubSeq(str, i, i)]

CharSet(str) == {SubSeq(str, i, i) : i \in 1..Len(str)}

\* [A-Za-z0-9_]
WordChars == CharSet("ABCDEFGHIJKLMNOPQRSTUVWXYZabcdefghijklmnopqrstuvwxyz0123456789_")

\* \s (the lines of the model hold no other white space than blanks and tabs)
SpaceChars == {" ", "\t"}

\* the value of a capture group that took no part in the match
None == <<"<None>">>

\* s.startswith(p), s.endswith(p), p in s
StartsWith(s, p) == Len(p) <= Len(s) /\ SubSeq(s, 1, Len(p)) = p

EndsWith(s, p) == Len(p) <= Len(s) /\ SubSeq(s, Len(s) - Len(p) + 1, Len(s)) = p

Contains(s, p) == \E i \in 1..(Len(s) - Len(p) + 1) : SubSeq(s, i, i + Len(p) - 1) = p

\* s.strip()
RECURSIVE LStrip(_)
LStrip(s) == IF s # <<>> /\ Head(s) \in SpaceChars THEN LStrip(Tail(s)) ELSE s

RECURSIVE RStrip(_)
RStrip(s) ==
    IF s # <<>> /\ s[Len(s)] \in SpaceChars THEN RStrip(SubSeq(s, 1, Len(s) - 1)) ELSE s

Strip(s) == RStrip(LStrip(s))

(***************************************************************************)
(* Regular expressions (the subset the source uses) and re.search          *)
(***************************************************************************)

OneOf(str) == [t |-> "cls", s |-> CharSet(str)]
NoneOf(str) == [t |-> "ncls", s |-> CharSet(str)]
Word == [t |-> "cls", s |-> WordChars]
Space == [t |-> "cls", s |-> SpaceChars]
AnyChar == [t |-> "ncls", s |-> {}]
Lit(str) == [t |-> "lit", w |-> Chars(str)]
Cat(rs) == [t |-> "cat", rs |-> rs]
Alt(rs) == [t |-> "alt", rs |-> rs]
Rep(r, lo, hi) == [t |-> "rep", r |-> r, lo |-> lo, hi |-> hi]
Grp(k, r) == [t |-> "grp", k |-> k, r |-> r]

\* r+, r*, r? and r{lo,hi}; an upper limit of -1 stands for "no limit"
Plus(r) == Rep(r, 1, -1)
Star(r) == Rep(r, 0, -1)
Opt(r) == Rep(r, 0, 1)

\* Match(r, s, i, c): the ways r matches s from position i on, with the
\* capture groups c so far, in the order the backtracking matcher tries
\* them; each is [e |-> the position after the match, c |-> the groups].
RECURSIVE Match(_, _, _, _), MatchCat(_, _, _, _, _), MatchAlt(_, _, _, _, _),
          MatchRep(_, _, _, _, _, _), Continue(_, _, _, _, _), Again(_, _, _, _, _, _)

Match(r, s, i, c) ==
    CASE r.t = "cls" ->
           IF i <= Len(s) /\ s[i] \in r.s THEN <<[e |-> i + 1, c |-> c]>> ELSE <<>>
      [] r.t = "ncls" ->
           IF i <= Len(s) /\ s[i] \notin r.s THEN <<[e |-> i + 1, c |-> c]>> ELSE <<>>
      [] r.t = "lit" ->
           IF i + Len(r.w) - 1 <= Len(s) /\ SubSeq(s, i, i + Len(r.w) - 1) = r.w
           THEN <<[e |-> i + Len(r.w), c |-> c]>> ELSE <<>>
      [] r.t = "cat" -> MatchCat(r.rs, 1, s, i, c)
      [] r.t = "alt" -> MatchAlt(r.rs, 1, s, i, c)
      [] r.t = "rep" -> MatchRep(r.r, r.lo, r.hi, s, i, c)
      [] r.t = "grp" ->
           LET inner == Match(r.r, s, i, c)
           IN  [k \in 1..Len(inner) |->
                  [e |-> inner[k].e,
                   c |-> [inner[k].c EXCEPT ![r.k] = SubSeq(s, i, inner[k].e - 1)]]]

\* after each way `outs[k..]` the first part matched, the rest rs[j..]
Continue(outs, k, rs, j, s) ==
    IF k > Len(outs) THEN <<>>
    ELSE MatchCat(rs, j, s, outs[k].e, outs[k].c) \o Continue(outs, k + 1, rs, j, s)

MatchCat(rs, j, s, i, c) ==
    IF j > Len(rs) THEN <<[e |-> i, c |-> c]>>
    ELSE Continue(Match(rs[j], s, i, c), 1, rs, j + 1, s)

MatchAlt(rs, j, s, i, c) ==
    IF j > Len(rs) THEN <<>>
    ELSE Match(rs[j], s, i, c) \o MatchAlt(rs, j + 1, s, i, c)

\* after each way one more repetition matched (consuming something), the
\* remaining repetitions
Again(outs, k, r, lo, hi, s) ==
    IF k > Len(outs) THEN <<>>
    ELSE MatchRep(r, lo, hi, s, outs[k].e, outs[k].c) \o Again(outs, k + 1, r, lo, hi, s)

\* greedy: one more repetition is tried before stopping
MatchRep(r, lo, hi, s, i, c) ==
    LET once == IF hi # 0 THEN Match(r, s, i, c) ELSE <<>>
        more == Again(SelectSeq(once, LAMBDA o : o.e > i), 1, r, lo - 1, hi - 1, s)
        stop == IF lo <= 0 THEN <<[e |-> i, c |-> c]>> ELSE <<>>
    IN  more \o stop

NoMatch == [found |-> FALSE]

\* re.search(r, s) from position i on; ng is the number of groups of r.
\* The result holds the span [start, end) and the groups g[1..ng].
RECURSIVE SearchFrom(_, _, _, _)
SearchFrom(r, s, i, ng) ==
    IF i > Len(s) + 1 THEN NoMatch
    ELSE LET outs == Match(r, s, i, [k \in 1..ng |-> None])
         IN  IF outs # <<>>
             THEN [found |-> TRUE, start |-> i, end |-> outs[1].e, g |-> outs[1].c]
             ELSE SearchFrom(r, s, i + 1, ng)

Search(r, s, ng) == SearchFrom(r, s, 1, ng)

\* re.sub(r, repl, s): every non-overlapping match of r, left to right, is
\* replaced by repl (no pattern of the source matches the empty string here)
RECURSIVE SubFrom(_, _, _, _, _)
SubFrom(r, repl, s, i, ng) ==
    LET m == SearchFrom(r, s, i, ng)
    IN  IF ~m.found \/ m.end = m.start THEN SubSeq(s, i, Len(s))
        ELSE SubSeq(s, i, m.start - 1) \o repl \o SubFrom(r, repl, s, m.end, ng)

Sub(r, repl, s, ng) == SubFrom(r, repl, s, 1, ng)

(***************************************************************************)
(* The converter's id counters (mmd2drawio.py 37-56)                       *)
(***************************************************************************)

\* a generator that skips a number
SkipNodeId(n) == [id |-> "node" \o ToString(n + 1), counter |-> n + 2]

\* generate_node_id: the id for counter value n, and the counter after it
generate_node_id(n) == [id |-> "node" \o ToString(n), counter |-> n + 1]

generate_edge_id(n) == [id |-> "edge" \o ToString(n), counter |-> n + 1]

\* reset_counters: the two counters after the reset
reset_counters == [node_counter |-> 1, edge_counter |-> 1]

(***************************************************************************)
(* Style classifier (mmd2drawio.py 58-117)                                 *)
(***************************************************************************)

base_style == "whiteSpace=wrap;html=1;fillColor=#dae8fc;strokeColor=#6c8ebf;"

SubroutineStyle == "rounded=1;strokeWidth=2;" \o base_style
HexagonStyle ==
    "shape=hexagon;perimeter=hexagonPerimeter2;fillColor=#fff2cc;strokeColor=#d6b656;"
        \o base_style
CircleStyle == "ellipse;aspect=fixed;fillColor=#f8cecc;strokeColor=#b85450;" \o base_style
DatabaseStyle == "shape=cylinder3;fillColor=#e1d5e7;strokeColor=#9673a6;" \o base_style
FlagStyle ==
    "shape=parallelogram;perimeter=parallelogramPerimeter;fillColor=#d5e8d4;strokeColor=#82b366;"
        \o base_style
RectangleStyle == "rounded=1;" \o base_style
RoundStyle == "ellipse;fillColor=#ffe6cc;strokeColor=#d79b00;" \o base_style
DiamondStyle == "rhombus;fillColor=#fff2cc;strokeColor=#d6b656;" \o base_style

\* the style of a node registered without a shape token (lines 171, 188)
BareStyle == "rounded=1;whiteSpace=wrap;html=1;"

\* node_text[a:-b]
Slice(s, a, b) == SubSeq(s, a + 1, Len(s) - b)

Wrapped(s, open, close) == StartsWith(s, Chars(open)) /\ EndsWith(s, Chars(close))

\* a classifier that leaves the delimiters in the label
KeepDelimiters(node_text) == [label |-> node_text, style |-> RectangleStyle]

\* a classifier that tests the one-character delimiters before the
\* two-character ones
ShortDelimitersFirst(node_text) ==
    IF Wrapped(node_text, ">", "]")
    THEN [label |-> Slice(node_text, 1, 1), style |-> FlagStyle]
    ELSE IF Wrapped(node_text, "[", "]")
    THEN [label |-> Slice(node_text, 1, 1), style |-> RectangleStyle]
    ELSE IF Wrapped(node_text, "(", ")")
    THEN [label |-> Slice(node_text, 1, 1), style |-> RoundStyle]
    ELSE IF Wrapped(node_text, "{", "}")
    THEN [label |-> Slice(node_text, 1, 1), style |-> DiamondStyle]
    ELSE [label |-> node_text, style |-> RectangleStyle]

parse_node_shape(node_text) ==
    IF Wrapped(node_text, "[[", "]]")
    THEN [label |-> Slice(node_text, 2, 2), style |-> SubroutineStyle]
    ELSE IF Wrapped(node_text, "{{", "}}")
    THEN [label |-> Slice(node_text, 2, 2), style |-> HexagonStyle]
    ELSE IF Wrapped(node_text, "((", "))")
    THEN [label |-> Slice(node_text, 2, 2), style |-> CircleStyle]
    ELSE IF Wrapped(node_text, "[(", ")]")
    THEN [label |-> Slice(node_text, 2, 2), style |-> DatabaseStyle]
    ELSE IF Wrapped(node_text, ">", "]")
    THEN [label |-> Slice(node_text, 1, 1), style |-> FlagStyle]
    ELSE IF Wrapped(node_text, "[", "]")
    THEN [label |-> Slice(node_text, 1, 1), style |-> RectangleStyle]
    ELSE IF Wrapped(node_text, "(", ")")
    THEN [label |-> Slice(node_text, 1, 1), style |-> RoundStyle]
    ELSE IF Wrapped(node_text, "{", "}")
    THEN [label |-> Slice(node_text, 1, 1), style |-> DiamondStyle]
    ELSE [label |-> node_text, style |-> RectangleStyle]

ArrowBaseStyle ==
    "edgeStyle=orthogonalEdgeStyle;rounded=0;orthogonalLoop=1;jettySize=auto;html=1;strokeColor=#6c8ebf;"

parse_arrow_type(arrow_text) ==
    ArrowBaseStyle
    \o (IF Contains(arrow_text, Chars(".-")) \/ Contains(arrow_text, Chars(".."))
        THEN "dashed=1;dashPattern=5 5;" ELSE "")
    \o (IF Contains(arrow_text, Chars("==")) THEN "strokeWidth=3;" ELSE "strokeWidth=2;")
    \o (IF EndsWith(arrow_text, Chars("->")) THEN "endArrow=classic;endFill=1;"
        ELSE IF EndsWith(arrow_text, Chars("-")) THEN "endArrow=none;"
        ELSE IF EndsWith(arrow_text, Chars("o")) THEN "endArrow=oval;endFill=0;"
        ELSE IF EndsWith(arrow_text, Chars("x")) THEN "endArrow=cross;endFill=1;"
        ELSE "endArrow=classic;endFill=1;")

(***************************************************************************)
(* Flowchart extractor (mmd2drawio.py 119-230)                             *)
(***************************************************************************)

\* ([-.=]{1,3}>?[ox]?|[-.=]{1,3}) as group k
ArrowRe(k) ==
    Grp(k, Alt(<<Cat(<<Rep(OneOf("-.="), 1, 3), Opt(Lit(">")), Opt(OneOf("ox"))>>),
                 Rep(OneOf("-.="), 1, 3)>>))

\* line 144: ([-.=]{1,3}>?[ox]?|[-.=]{1,3})\|([^|]+)\|
edge_label_pattern == Cat(<<ArrowRe(1), Lit("|"), Grp(2, Plus(NoneOf("|"))), Lit("|")>>)

\* the eight shape tokens, in the order of the alternation; the database
\* shape is \[\([^\]]+\)\] on the source side of line 154 and in line 216,
\* and \[\([^\)]+\)\] on the target side of line 154
ShapeRe(k, dbInner) ==
    Grp(k, Alt(<<Cat(<<Lit("[["), Plus(NoneOf("]")), Lit("]]")>>),
                 Cat(<<Lit("{{"), Plus(NoneOf("}")), Lit("}}")>>),
                 Cat(<<Lit("(("), Plus(NoneOf(")")), Lit("))")>>),
                 Cat(<<Lit("[("), Plus(NoneOf(dbInner)), Lit(")]")>>),
                 Cat(<<Lit(">"), Plus(NoneOf("]")), Lit("]")>>),
                 Cat(<<Lit("["), Plus(NoneOf("]")), Lit("]")>>),
                 Cat(<<Lit("("), Plus(NoneOf(")")), Lit(")")>>),
                 Cat(<<Lit("{"), Plus(NoneOf("}")), Lit("}")>>)>>))

\* line 154
arrow_pattern ==
    Cat(<<Grp(1, Plus(Word)), Opt(ShapeRe(2, "]")), Star(Space),
          ArrowRe(3), Star(Space),
          Grp(4, Plus(Word)), Opt(ShapeRe(5, ")")),
          Opt(Cat(<<Star(Space), Lit("|"), Star(Space), Grp(6, Plus(NoneOf("|"))),
                    Star(Space), Lit("|")>>))>>)

\* line 216
standalone_pattern == Cat(<<Grp(1, Plus(Word)), ShapeRe(2, "]")>>)

\* the node map is an ordered dict: a sequence of entries in insertion order
HasKey(nodes, name) == \E i \in 1..Len(nodes) : nodes[i].name = name

KeyIndex(nodes, name) == CHOOSE i \in 1..Len(nodes) : nodes[i].name = name

\* a lookup that gives the id the next new node would get
LookupUnassigned(nodes, name) ==
    [nodes[KeyIndex(nodes, name)] EXCEPT !.id = "node" \o ToString(Len(nodes) + 1)]

Lookup(nodes, name) == nodes[KeyIndex(nodes, name)]

\* lines 167-181 (and 184-198): one node reference of an arrow line.
\* p holds the parser's locals and the converter's counters.
FlowNodeRef(p, name, shape) ==
    IF ~HasKey(p.nodes, name)
    THEN LET ls == IF shape # None THEN parse_node_shape(shape)
                   ELSE [label |-> name, style |-> BareStyle]
             gen == generate_node_id(p.node_counter)
         IN  [p EXCEPT !.nodes = Append(@, [name |-> name, id |-> gen.id,
                                            label |-> ls.label, style |-> ls.style]),
                       !.node_counter = gen.counter]
    ELSE IF shape # None /\ Lookup(p.nodes, name).label = name
    THEN LET ls == parse_node_shape(shape)
             k == KeyIndex(p.nodes, name)
         IN  [p EXCEPT !.nodes[k].label = ls.label, !.nodes[k].style = ls.style]
    ELSE p

\* lines 159-211: an arrow line
FlowArrowLine(p, m, extracted_label) ==
    LET edge_label == IF extracted_label # <<>> THEN extracted_label
                      ELSE IF m.g[6] # None THEN m.g[6] ELSE <<>>
        p1 == FlowNodeRef(p, m.g[1], m.g[2])
        p2 == FlowNodeRef(p1, m.g[4], m.g[5])
        gen == generate_edge_id(p2.edge_counter)
    IN  [p2 EXCEPT !.edges = Append(@, [id |-> gen.id,
                                        from |-> Lookup(p2.nodes, m.g[1]).id,
                                        to |-> Lookup(p2.nodes, m.g[4]).id,
                                        label |-> Strip(edge_label),
                                        style |-> parse_arrow_type(m.g[3])]),
                   !.edge_counter = gen.counter]

\* lines 216-228: a standalone node definition
FlowStandaloneLine(p, line) ==
    LET m == Search(standalone_pattern, line, 2)
    IN  IF m.found /\ ~HasKey(p.nodes, m.g[1])
        THEN LET ls == parse_node_shape(m.g[2])
                 gen == generate_node_id(p.node_counter)
             IN  [p EXCEPT !.nodes = Append(@, [name |-> m.g[1], id |-> gen.id,
                                                label |-> ls.label, style |-> ls.style]),
                           !.node_counter = gen.counter]
        ELSE p

\* lines 131-138: the direction a graph/flowchart line declares
DeclaredDirection(line) ==
    IF Contains(line, Chars("LR")) THEN "LR"
    ELSE IF Contains(line, Chars("RL")) THEN "RL"
    ELSE IF Contains(line, Chars("BT")) THEN "BT"
    ELSE "TD"

\* lines 128-228: the body of the loop over the lines, for one line
FlowLine(p, raw) ==
    LET line == Strip(raw)
    IN  IF StartsWith(line, Chars("graph")) \/ StartsWith(line, Chars("flowchart"))
        THEN [p EXCEPT !.flow_direction = DeclaredDirection(line)]
        ELSE IF line = <<>> THEN p
        ELSE LET lm == Search(edge_label_pattern, line, 2)
                 extracted_label == IF lm.found THEN lm.g[2] ELSE <<>>
                 line2 == IF lm.found THEN Sub(edge_label_pattern, lm.g[1], line, 2)
                          ELSE line
                 m == Search(arrow_pattern, line2, 6)
             IN  IF m.found THEN FlowArrowLine(p, m, extracted_label)
                 ELSE FlowStandaloneLine(p, line2)

RECURSIVE FlowLines(_, _, _)
FlowLines(p, lines, i) ==
    IF i > Len(lines) THEN p ELSE FlowLines(FlowLine(p, lines[i]), lines, i + 1)

\* an extractor that starts from the direction the converter recorded
KeepDirection(self, lines) ==
    FlowLines([nodes |-> <<>>, edges |-> <<>>,
               node_counter |-> self.node_counter,
               edge_counter |-> self.edge_counter,
               flow_direction |-> self.flow_direction], lines, 1)

\* parse_mermaid_flowchart(mermaid_text) on a converter whose counters are
\* self.node_counter and self.edge_counter: the nodes, the edges and the
\* converter's fields afterwards
parse_mermaid_flowchart(self, lines) ==
    FlowLines([nodes |-> <<>>, edges |-> <<>>,
               node_counter |-> self.node_counter,
               edge_counter |-> self.edge_counter,
               flow_direction |-> "TD"], lines, 1)


(***************************************************************************)
(* Sequence extractor (mmd2drawio.py 232-328)                              *)
(***************************************************************************)

SequenceBaseStyle ==
    "edgeStyle=orthogonalEdgeStyle;rounded=0;orthogonalLoop=1;jettySize=auto;html=1;"

parse_sequence_arrow_style(arrow_text) ==
    IF arrow_text = Chars("->") THEN SequenceBaseStyle \o "endArrow=classic;"
    ELSE IF arrow_text = Chars("->>") THEN SequenceBaseStyle \o "endArrow=open;dashed=1;"
    ELSE IF Contains(arrow_text, Chars(".->"))
    THEN SequenceBaseStyle \o "endArrow=classic;dashed=1;"
    ELSE IF arrow_text = Chars("+") THEN SequenceBaseStyle \o "endArrow=classic;strokeWidth=2;"
    ELSE IF arrow_text = Chars("-") THEN SequenceBaseStyle \o "endArrow=classic;strokeWidth=2;"
    ELSE IF Contains(arrow_text, Chars("-->"))
    THEN SequenceBaseStyle \o "endArrow=classic;dashed=1;"
    ELSE IF EndsWith(arrow_text, Chars("x")) THEN SequenceBaseStyle \o "endArrow=cross;"
    ELSE SequenceBaseStyle \o "endArrow=classic;"

\* s.find(p): the first position p occurs at in s, 0 when it does not
RECURSIVE FindFrom(_, _, _)
FindFrom(s, p, i) ==
    IF i + Len(p) - 1 > Len(s) THEN 0
    ELSE IF SubSeq(s, i, i + Len(p) - 1) = p THEN i
    ELSE FindFrom(s, p, i + 1)

\* s.split(p, 1)
SplitOnce(s, p) ==
    LET i == FindFrom(s, p, 1)
    IN  IF i = 0 THEN <<s>> ELSE <<SubSeq(s, 1, i - 1), SubSeq(s, i + Len(p), Len(s))>>

\* s.replace(p, '')
RECURSIVE Remove(_, _)
Remove(s, p) ==
    LET i == FindFrom(s, p, 1)
    IN  IF i = 0 THEN s ELSE SubSeq(s, 1, i - 1) \o Remove(SubSeq(s, i + Len(p), Len(s)), p)

\* line 294: ([A-Za-z0-9_]+)\s*(->>?|\.->|-->|->|-x|\+|-)\s*([A-Za-z0-9_]+)\s*:\s*(.+)
msg_pattern ==
    Cat(<<Grp(1, Plus(Word)), Star(Space),
          Grp(2, Alt(<<Cat(<<Lit("->"), Opt(Lit(">"))>>), Lit(".->"), Lit("-->"),
                       Lit("->"), Lit("-x"), Lit("+"), Lit("-")>>)),
          Star(Space), Grp(3, Plus(Word)), Star(Space), Lit(":"), Star(Space),
          Grp(4, Plus(AnyChar))>>)

\* line 292: any(arrow in line for arrow in [...])
SequenceArrows == <<"->", "->>", "-.->", "-->", "-x", "+", "-">>

HasSequenceArrow(line) ==
    \E k \in 1..Len(SequenceArrows) : Contains(line, Chars(SequenceArrows[k]))

\* lines 288-289, 304-307: a participant is added when its name is new
AddParticipant(p, name, label) ==
    IF HasKey(p.nodes, name) THEN p
    ELSE LET gen == generate_node_id(p.node_counter)
         IN  [p EXCEPT !.nodes = Append(@, [name |-> name, id |-> gen.id, label |-> label]),
                       !.node_counter = gen.counter]

\* lines 280-289
SequenceParticipantLine(p, line) ==
    LET parts == SplitOnce(line, Chars(" as "))
        bare(t) == Strip(Remove(Remove(t, Chars("participant")), Chars("actor")))
    IN  IF Len(parts) = 2 THEN AddParticipant(p, bare(parts[1]), Strip(parts[2]))
        ELSE AddParticipant(p, bare(line), bare(line))

\* lines 294-318
SequenceMessageLine(p, line) ==
    LET m == Search(msg_pattern, line, 4)
    IN  IF ~m.found THEN p
        ELSE LET p1 == AddParticipant(p, m.g[1], m.g[1])
                 p2 == AddParticipant(p1, m.g[3], m.g[3])
                 gen == generate_edge_id(p2.edge_counter)
             IN  [p2 EXCEPT !.edges = Append(@, [id |-> gen.id,
                                                 from |-> Lookup(p2.nodes, m.g[1]).id,
                                                 to |-> Lookup(p2.nodes, m.g[3]).id,
                                                 label |-> Strip(m.g[4]),
                                                 style |-> parse_sequence_arrow_style(m.g[2])]),
                            !.edge_counter = gen.counter]

\* lines 273-326: the body of the loop, for one line
SequenceLine(p, raw) ==
    LET line == Strip(raw)
    IN  IF line = <<>> \/ StartsWith(line, Chars("sequenceDiagram")) THEN p
        ELSE IF StartsWith(line, Chars("participant")) \/ StartsWith(line, Chars("actor"))
        THEN SequenceParticipantLine(p, line)
        ELSE IF HasSequenceArrow(line) THEN SequenceMessageLine(p, line)
        ELSE p

RECURSIVE SequenceLines(_, _, _)
SequenceLines(p, lines, i) ==
    IF i > Len(lines) THEN p ELSE SequenceLines(SequenceLine(p, lines[i]), lines, i + 1)

\* the extractors other than the flowchart one leave self.flow_direction alone
parse_mermaid_sequence(self, lines) ==
    SequenceLines([nodes |-> <<>>, edges |-> <<>>,
                   node_counter |-> self.node_counter,
                   edge_counter |-> self.edge_counter,
                   flow_direction |-> self.flow_direction], lines, 1)

(***************************************************************************)
(* ER extractor (mmd2drawio.py 330-458)                                    *)
(***************************************************************************)

ERBaseStyle ==
    "edgeStyle=orthogonalEdgeStyle;rounded=0;orthogonalLoop=1;jettySize=auto;html=1;"

\* a relationship style that leaves the cardinality glyphs out
ERStyleWithoutGlyphs(relationship_text) ==
    ERBaseStyle \o (IF Contains(relationship_text, Chars("..")) THEN "dashed=1;" ELSE "")

parse_er_relationship_style(relationship_text) ==
    ERBaseStyle
    \o (IF Contains(relationship_text, Chars("..")) THEN "dashed=1;" ELSE "")
    \o (IF StartsWith(relationship_text, Chars("||")) THEN "startArrow=ERone;"
        ELSE IF StartsWith(relationship_text, Chars("}|")) THEN "startArrow=ERmany;"
        ELSE IF StartsWith(relationship_text, Chars("|o")) THEN "startArrow=ERzeroToOne;"
        ELSE IF StartsWith(relationship_text, Chars("}o")) THEN "startArrow=ERzeroToMany;"
        ELSE "")
    \o (IF EndsWith(relationship_text, Chars("||")) THEN "endArrow=ERone;"
        ELSE IF EndsWith(relationship_text, Chars("|{")) THEN "endArrow=ERmany;"
        ELSE IF EndsWith(relationship_text, Chars("o|")) THEN "endArrow=ERzeroToOne;"
        ELSE IF EndsWith(relationship_text, Chars("o{")) THEN "endArrow=ERzeroToMany;"
        ELSE "")

\* line 387:
\* ([A-Za-z0-9_]+)\s*([\|\}][|\}o][-\.]{2,3}[o\|\}][\{\|])\s*([A-Za-z0-9_]+)\s*:\s*(.+)
rel_pattern ==
    Cat(<<Grp(1, Plus(Word)), Star(Space),
          Grp(2, Cat(<<OneOf("|}"), OneOf("|}o"), Rep(OneOf("-."), 2, 3),
                       OneOf("o|}"), OneOf("{|")>>)),
          Star(Space), Grp(3, Plus(Word)), Star(Space), Lit(":"), Star(Space),
          Grp(4, Plus(AnyChar))>>)

\* s.rstrip(' {')
RECURSIVE RStripChars(_, _)
RStripChars(s, cs) ==
    IF s # <<>> /\ s[Len(s)] \in cs THEN RStripChars(SubSeq(s, 1, Len(s) - 1), cs) ELSE s

\* lines 349-354, 375-380, 397-408: an entity is added when its name is new
AddEntity(p, name) ==
    IF HasKey(p.nodes, name) THEN p
    ELSE LET gen == generate_node_id(p.node_counter)
         IN  [p EXCEPT !.nodes = Append(@, [name |-> name, id |-> gen.id, label |-> name,
                                            attributes |-> <<>>]),
                       !.node_counter = gen.counter]

\* line 371
ERNotRelationLike(line) ==
    ~(Contains(line, Chars("||--")) \/ Contains(line, Chars("}o--"))
      \/ Contains(line, Chars("||..o{")))

\* line 374: not any(char in entity_name for char in [':', '||', '--', '}o', '{'])
ERNameTokens == <<":", "||", "--", "}o", "{">>

ERPlainName(entity_name) ==
    ~\E k \in 1..Len(ERNameTokens) : Contains(entity_name, Chars(ERNameTokens[k]))

\* line 385
ERRelationTokens == <<"||--", "}o--", "||..", "}|--", "|o--", "o|--">>

ERHasRelation(line) ==
    \E k \in 1..Len(ERRelationTokens) : Contains(line, Chars(ERRelationTokens[k]))

\* lines 387-419
ERRelationLine(p, line) ==
    LET m == Search(rel_pattern, line, 4)
    IN  IF ~m.found THEN p
        ELSE LET p1 == AddEntity(p, m.g[1])
                 p2 == AddEntity(p1, m.g[3])
                 gen == generate_edge_id(p2.edge_counter)
             IN  [p2 EXCEPT !.edges = Append(@, [id |-> gen.id,
                                                 from |-> Lookup(p2.nodes, m.g[1]).id,
                                                 to |-> Lookup(p2.nodes, m.g[3]).id,
                                                 label |-> m.g[4],
                                                 style |-> parse_er_relationship_style(m.g[2])]),
                            !.edge_counter = gen.counter]

\* lines 339-419: the body of the loop, for one line; current_entity is None
\* or a name, in_entity_block a boolean
ERLine(p, raw) ==
    LET line == Strip(raw)
    IN  IF line = <<>> \/ StartsWith(line, Chars("erDiagram")) THEN p
        ELSE IF EndsWith(line, Chars("{"))
        THEN LET name == Strip(RStripChars(line, {" ", "{"}))
             IN  [AddEntity(p, name) EXCEPT !.current_entity = name,
                                            !.in_entity_block = TRUE]
        ELSE IF line = Chars("}")
        THEN [p EXCEPT !.current_entity = None, !.in_entity_block = FALSE]
        ELSE IF p.in_entity_block /\ p.current_entity \notin {None, <<>>}
                /\ HasKey(p.nodes, p.current_entity)
        THEN LET k == KeyIndex(p.nodes, p.current_entity)
             IN  [p EXCEPT !.nodes[k].attributes = Append(@, line)]
        ELSE IF ~p.in_entity_block /\ ERNotRelationLike(line)
        THEN IF ERPlainName(line)
             THEN [AddEntity(p, line) EXCEPT !.current_entity = line]
             ELSE p
        ELSE IF ERHasRelation(line) THEN ERRelationLine(p, line)
        ELSE p

RECURSIVE ERLines(_, _, _)
ERLines(p, lines, i) ==
    IF i > Len(lines) THEN p ELSE ERLines(ERLine(p, lines[i]), lines, i + 1)

parse_mermaid_er(self, lines) ==
    LET p == ERLines([nodes |-> <<>>, edges |-> <<>>,
                      node_counter |-> self.node_counter,
                      edge_counter |-> self.edge_counter,
                      flow_direction |-> self.flow_direction,
                      current_entity |-> None, in_entity_block |-> FALSE], lines, 1)
    IN  [nodes |-> p.nodes, edges |-> p.edges, node_counter |-> p.node_counter,
         edge_counter |-> p.edge_counter, flow_direction |-> p.flow_direction]

(***************************************************************************)
(* State extractor (mmd2drawio.py 460-511)                                 *)
(***************************************************************************)

\* line 473:
\* (\[?\*?\]?[A-Za-z0-9_]*)\s*-->\s*(\[?\*?\]?[A-Za-z0-9_]*)\s*(?::\s*(.+))?
StateRefRe(k) == Grp(k, Cat(<<Opt(Lit("[")), Opt(Lit("*")), Opt(Lit("]")), Star(Word)>>))

transition_pattern ==
    Cat(<<StateRefRe(1), Star(Space), Lit("-->"), Star(Space), StateRefRe(2), Star(Space),
          Opt(Cat(<<Lit(":"), Star(Space), Grp(3, Plus(AnyChar))>>))>>)

\* the labels of the synthetic nodes: a filled and a hollow circle glyph
StartGlyph == <<"BLACK CIRCLE">>
EndGlyph == <<"FISHEYE">>

\* lines 494, 498
StateDisplayName(state) ==
    IF state = Chars("Start") THEN StartGlyph
    ELSE IF state = Chars("End") THEN EndGlyph ELSE state

\* lines 493-499
AddState(p, state) ==
    IF HasKey(p.nodes, state) THEN p
    ELSE LET gen == generate_node_id(p.node_counter)
         IN  [p EXCEPT !.nodes = Append(@, [name |-> state, id |-> gen.id,
                                            label |-> StateDisplayName(state)]),
                       !.node_counter = gen.counter]

\* a mapping that takes every sentinel for the start of the diagram
SentinelAlwaysStart(state, synthetic) ==
    IF state = Chars("[*]") \/ state = Chars("*") THEN Chars("Start") ELSE state

\* lines 482-490
StateSentinel(state, synthetic) ==
    IF state = Chars("[*]") \/ state = Chars("*") THEN Chars(synthetic) ELSE state

\* lines 467-509: the body of the loop, for one line
StateLine(p, raw) ==
    LET line == Strip(raw)
        m == Search(transition_pattern, line, 3)
    IN  IF line = <<>> \/ StartsWith(line, Chars("stateDiagram")) \/ ~m.found THEN p
        ELSE LET from_state == StateSentinel(Strip(m.g[1]), "Start")
                 to_state == StateSentinel(Strip(m.g[2]), "End")
                 p1 == AddState(p, from_state)
                 p2 == AddState(p1, to_state)
                 gen == generate_edge_id(p2.edge_counter)
             IN  [p2 EXCEPT !.edges = Append(@, [id |-> gen.id,
                                                 from |-> Lookup(p2.nodes, from_state).id,
                                                 to |-> Lookup(p2.nodes, to_state).id,
                                                 label |-> IF m.g[3] # None THEN Strip(m.g[3])
                                                           ELSE <<>>,
                                                 style |-> "solid"]),
                            !.edge_counter = gen.counter]

RECURSIVE StateLines(_, _, _)
StateLines(p, lines, i) ==
    IF i > Len(lines) THEN p ELSE StateLines(StateLine(p, lines[i]), lines, i + 1)

parse_mermaid_state(self, lines) ==
    StateLines([nodes |-> <<>>, edges |-> <<>>,
                node_counter |-> self.node_counter,
                edge_counter |-> self.edge_counter,
                flow_direction |-> self.flow_direction], lines, 1)


(***************************************************************************)
(* Level computation (mmd2drawio.py 623-659)                               *)
(***************************************************************************)

\* the ids of the node map, in insertion order
NodeIds(nodes) == [k \in 1..Len(nodes) |-> nodes[k].id]

Range(seq) == {seq[k] : k \in 1..Len(seq)}

\* graph[node_id] (lines 626, 630): the targets of its edges, in edge order
Neighbors(edges, node_id) ==
    LET out == SelectSeq(edges, LAMBDA e : e.from = node_id)
    IN  [k \in 1..Len(out) |-> out[k].to]

\* an in-degree that does not count: 1 for a node with incoming edges
InDegreeAsFlag(nodes, edges) ==
    [id \in Range(NodeIds(nodes)) |->
        IF \E k \in 1..Len(edges) : edges[k].to = id THEN 1 ELSE 0]

\* in_degree after lines 627-631
InDegree(nodes, edges) ==
    [id \in Range(NodeIds(nodes)) |->
        Cardinality({k \in 1..Len(edges) : edges[k].to = id})]

\* levels is an ordered dict, a sequence of [id, level] in insertion order
HasLevel(levels, id) == \E k \in 1..Len(levels) : levels[k].id = id

LevelOf(levels, id) == levels[CHOOSE k \in 1..Len(levels) : levels[k].id = id].level

\* levels[node_id] = level
SetLevel(levels, id, level) ==
    IF HasLevel(levels, id)
    THEN [k \in 1..Len(levels) |->
            IF levels[k].id = id THEN [id |-> id, level |-> level] ELSE levels[k]]
    ELSE Append(levels, [id |-> id, level |-> level])

\* a neighbour is queued at the first edge into it that is gone through
RECURSIVE ReadyAtFirstEdge(_, _, _)
ReadyAtFirstEdge(st, nbrs, j) ==
    IF j > Len(nbrs) THEN st
    ELSE ReadyAtFirstEdge(
             [st EXCEPT !.in_degree[nbrs[j]] = @ - 1,
                        !.next_queue = IF nbrs[j] \in Range(@) \/ HasLevel(st.levels, nbrs[j])
                                       THEN @ ELSE Append(@, nbrs[j])],
             nbrs, j + 1)

\* lines 646-649: the in-degrees and next_queue after the neighbours nbrs[j..]
RECURSIVE ReduceNeighbors(_, _, _)
ReduceNeighbors(st, nbrs, j) ==
    IF j > Len(nbrs) THEN st
    ELSE LET d == st.in_degree[nbrs[j]] - 1
         IN  ReduceNeighbors(
                 [st EXCEPT !.in_degree[nbrs[j]] = d,
                            !.next_queue = IF d = 0 THEN Append(@, nbrs[j]) ELSE @],
                 nbrs, j + 1)

\* lines 642-649: the nodes queue[i..] of the current level
RECURSIVE ProcessQueue(_, _, _)
ProcessQueue(st, queue, i) ==
    IF i > Len(queue) THEN st
    ELSE ProcessQueue(
             ReduceNeighbors([st EXCEPT !.levels = SetLevel(@, queue[i], st.current_level)],
                             Neighbors(st.edges, queue[i]), 1),
             queue, i + 1)

\* lines 626-636: the locals before the while loop
LevelInit(nodes, edges) ==
    LET ids == NodeIds(nodes)
        deg == InDegree(nodes, edges)
    IN  [ids |-> ids, edges |-> edges, in_degree |-> deg, levels |-> <<>>,
         queue |-> SelectSeq(ids, LAMBDA id : deg[id] = 0),
         next_queue |-> <<>>, current_level |-> 0]

\* an iteration that does not advance the level counter
RoundWithoutIncrement(lv) ==
    LET st == ProcessQueue([lv EXCEPT !.next_queue = <<>>], lv.queue, 1)
    IN  [st EXCEPT !.queue = st.next_queue]

\* lines 639-652: one iteration of the while loop
LevelRound(lv) ==
    LET st == ProcessQueue([lv EXCEPT !.next_queue = <<>>], lv.queue, 1)
    IN  [st EXCEPT !.queue = st.next_queue, !.current_level = @ + 1]

\* a function that returns after the loop
LeaveRest(lv, k) == lv

\* lines 655-657: the nodes without a level get the current one
RECURSIVE LevelRest(_, _)
LevelRest(lv, k) ==
    IF k > Len(lv.ids) THEN lv
    ELSE LevelRest(IF HasLevel(lv.levels, lv.ids[k]) THEN lv
                   ELSE [lv EXCEPT !.levels = SetLevel(@, lv.ids[k], lv.current_level)],
                   k + 1)

\* while queue: ...
RECURSIVE LevelLoop(_)
LevelLoop(lv) == IF lv.queue = <<>> THEN lv ELSE LevelLoop(LevelRound(lv))

calculate_node_levels(nodes, edges) == LevelRest(LevelLoop(LevelInit(nodes, edges)), 1).levels

(***************************************************************************)
(* Layout (mmd2drawio.py 548-722)                                          *)
(***************************************************************************)

Max(a, b) == IF a >= b THEN a ELSE b
Min(a, b) == IF a <= b THEN a ELSE b

\* math.ceil(math.sqrt(n))
CeilSqrt(n) == CHOOSE k \in 0..n : k * k >= n /\ (k = 0 \/ (k - 1) * (k - 1) < n)

\* a grid filled column by column
GridByColumns(nodes, cols, x_spacing, y_spacing, width, heights) ==
    [id \in Range(NodeIds(nodes)) |->
        LET i == (CHOOSE k \in 1..Len(nodes) : nodes[k].id = id) - 1
        IN  [x |-> 100 + (i \div cols) * x_spacing,
             y |-> 100 + (i % cols) * y_spacing,
             width |-> width, height |-> heights[i + 1]]]

\* positions of a grid: the i-th node (from 0) is at column i mod cols and
\* row i div cols; heights[k] is the height of the k-th node
GridPositions(nodes, cols, x_spacing, y_spacing, width, heights) ==
    [id \in Range(NodeIds(nodes)) |->
        LET i == (CHOOSE k \in 1..Len(nodes) : nodes[k].id = id) - 1
        IN  [x |-> 100 + (i % cols) * x_spacing,
             y |-> 100 + (i \div cols) * y_spacing,
             width |-> width, height |-> heights[i + 1]]]

\* the ids of a level, the one that was given it last coming first
LevelGroupReversed(levels, level) ==
    LET out == SelectSeq(levels, LAMBDA l : l.level = level)
    IN  [k \in 1..Len(out) |-> out[Len(out) + 1 - k].id]

\* lines 666-670: the ids of a level, in the order they were given it
LevelGroup(levels, level) ==
    LET out == SelectSeq(levels, LAMBDA l : l.level = level)
    IN  [k \in 1..Len(out) |-> out[k].id]

IndexIn(seq, x) == CHOOSE k \in 1..Len(seq) : seq[k] = x

\* line 722: getattr(self, 'flow_direction', 'TD')
detect_flow_direction(direction) ==
    IF direction = "unset" THEN "TD" ELSE direction

\* a layout that has no rectangle for the node that was levelled last
LayoutButLast(direction, nodes, levels) ==
    [id \in {levels[k].id : k \in 1..Len(levels) - 1} |->
        [x |-> 100, y |-> 80 + LevelOf(levels, id) * 180, width |-> 180, height |-> 80]]

\* lines 661-717
layout_by_levels(direction, nodes, levels) ==
    [id \in {levels[k].id : k \in 1..Len(levels)} |->
        LET level == LevelOf(levels, id)
            node_ids == LevelGroup(levels, level)
            i == IndexIn(node_ids, id) - 1
        IN  IF detect_flow_direction(direction) \in {"TD", "TB"}
            THEN LET total_width == (Len(node_ids) - 1) * 220
                     start_x_level == 100 + Max(0, (800 - total_width) \div 2)
                 IN  [x |-> start_x_level + i * 220, y |-> 80 + level * 180,
                      width |-> 180, height |-> 80]
            ELSE LET total_height == (Len(node_ids) - 1) * 150
                     start_y_level == 100 + Max(0, (600 - total_height) \div 2)
                 IN  [x |-> 80 + level * 220, y |-> start_y_level + i * 150,
                      width |-> 180, height |-> 80]]

\* lines 553-565
SequencePositions(nodes) ==
    [id \in Range(NodeIds(nodes)) |->
        LET i == (CHOOSE k \in 1..Len(nodes) : nodes[k].id = id) - 1
        IN  [x |-> 100 + i * 250, y |-> 80, width |-> 180, height |-> 80]]

\* lines 548-621; for a flowchart with edges the levels are part of the
\* result, so that they can be looked at
calculate_positions(direction, nodes, edges, diagram_type) ==
    LET n == Len(nodes)
    IN  IF diagram_type = "sequence"
        THEN [levels |-> <<>>, positions |-> SequencePositions(nodes)]
        ELSE IF diagram_type = "er"
        THEN [levels |-> <<>>,
              positions |-> GridPositions(nodes, Max(2, Min(4, CeilSqrt(n))), 300, 250, 220,
                                [k \in 1..n |-> Max(120, 50 + Len(nodes[k].attributes) * 25)])]
        ELSE IF diagram_type = "state"
        THEN [levels |-> <<>>,
              positions |-> GridPositions(nodes, Min(4, Max(2, n)), 250, 180, 180,
                                [k \in 1..n |-> 90])]
        ELSE IF Len(edges) > 0
        THEN LET levels == calculate_node_levels(nodes, edges)
             IN  [levels |-> levels,
                  positions |-> layout_by_levels(direction, nodes, levels)]
        ELSE [levels |-> <<>>,
              positions |-> GridPositions(nodes, Max(2, Min(5, CeilSqrt(n))), 280, 180, 200,
                                [k \in 1..n |-> 100])]


(***************************************************************************)
(* convert_mermaid_to_drawio (mmd2drawio.py 724-810)                       *)
(***************************************************************************)

\* keyword in mermaid_text, the text being the sequence of its lines
InText(mermaid_text, keyword) ==
    \E k \in 1..Len(mermaid_text) : Contains(mermaid_text[k], Chars(keyword))

\* a dispatcher that looks for erDiagram first
DetectTypeERFirst(mermaid_text) ==
    IF InText(mermaid_text, "erDiagram") THEN "er"
    ELSE IF InText(mermaid_text, "sequenceDiagram") THEN "sequence"
    ELSE IF InText(mermaid_text, "stateDiagram") THEN "state"
    ELSE "flowchart"

\* lines 728-740: the extractor that handles the text
DetectType(mermaid_text) ==
    IF InText(mermaid_text, "sequenceDiagram") THEN "sequence"
    ELSE IF InText(mermaid_text, "erDiagram") THEN "er"
    ELSE IF InText(mermaid_text, "stateDiagram") THEN "state"
    ELSE "flowchart"

\* lines 729-740: the extractor chosen is the only one called
RunExtractor(self, mermaid_text) ==
    LET diagram_type == DetectType(mermaid_text)
    IN  CASE diagram_type = "sequence" ->
               [diagram_type |-> "sequence", called |-> <<"parse_mermaid_sequence">>,
                parsed |-> parse_mermaid_sequence(self, mermaid_text)]
          [] diagram_type = "er" ->
               [diagram_type |-> "er", called |-> <<"parse_mermaid_er">>,
                parsed |-> parse_mermaid_er(self, mermaid_text)]
          [] diagram_type = "state" ->
               [diagram_type |-> "state", called |-> <<"parse_mermaid_state">>,
                parsed |-> parse_mermaid_state(self, mermaid_text)]
          [] OTHER ->
               [diagram_type |-> "flowchart", called |-> <<"parse_mermaid_flowchart">>,
                parsed |-> parse_mermaid_flowchart(self, mermaid_text)]

\* line 783: label += '\\n' + '\\n'.join(attributes), a backslash and an n
RECURSIVE JoinAttributes(_, _)
JoinAttributes(attributes, k) ==
    IF k > Len(attributes) THEN <<>>
    ELSE <<"\\", "n">> \o attributes[k] \o JoinAttributes(attributes, k + 1)

ERSwimlaneStyle ==
    "swimlane;fontStyle=0;childLayout=stackLayout;horizontal=1;startSize=30;horizontalStack=0;resizeParent=1;resizeParentMax=0;resizeLast=0;collapsible=1;marginBottom=0;"

\* lines 775-798 with create_drawio_node (513-529): the vertex cell of a node
VertexCell(node, pos, diagram_type) ==
    [id |-> node.id,
     value |-> IF diagram_type = "er" THEN node.label \o JoinAttributes(node.attributes, 1)
               ELSE node.label,
     style |-> IF diagram_type = "er" THEN ERSwimlaneStyle
               ELSE IF "style" \in DOMAIN node THEN node.style ELSE BareStyle,
     vertex |-> "1", parent |-> "1",
     x |-> pos.x, y |-> pos.y, width |-> pos.width, height |-> pos.height]

\* lines 801-808 with create_drawio_edge (531-546): the edge cell of an edge
EdgeCell(edge) ==
    [id |-> edge.id, value |-> edge.label, style |-> edge.style, edge |-> "1",
     parent |-> "1", source |-> edge.from, target |-> edge.to]

\* lines 775-808: the diagram element built from what the extractor gave
\* (ex) and the positions computed (lay): its id, its cells, the locals it
\* was built from, and the converter's fields afterwards.  A node without a
\* position makes line 777 raise KeyError.
BuildDiagram(ex, lay) ==
    LET nodes == ex.parsed.nodes
        edges == ex.parsed.edges
        placed == \A k \in 1..Len(nodes) : nodes[k].id \in DOMAIN lay.positions
    IN  [raised |-> IF placed THEN "" ELSE "KeyError",
         id |-> "diagram1",
         diagram_type |-> ex.diagram_type,
         called |-> ex.called,
         nodes |-> nodes,
         edges |-> edges,
         levels |-> lay.levels,
         positions |-> lay.positions,
         cells |-> IF placed
                   THEN [k \in 1..Len(nodes) |->
                           VertexCell(nodes[k], lay.positions[nodes[k].id], ex.diagram_type)]
                        \o [k \in 1..Len(edges) |-> EdgeCell(edges[k])]
                   ELSE <<>>,
         self |-> [node_counter |-> ex.parsed.node_counter,
                   edge_counter |-> ex.parsed.edge_counter,
                   flow_direction |-> ex.parsed.flow_direction]]

\* line 772: positions = self.calculate_positions(nodes, edges, diagram_type)
PlaceDiagram(ex) ==
    BuildDiagram(ex, calculate_positions(ex.parsed.flow_direction, ex.parsed.nodes,
                                         ex.parsed.edges, ex.diagram_type))

\* a conversion that does not reset the counters
ConvertWithoutReset(self, mermaid_text) == PlaceDiagram(RunExtractor(self, mermaid_text))

\* convert_mermaid_to_drawio(mermaid_text) on the converter self (724-810)
convert_mermaid_to_drawio(self, mermaid_text) ==
    PlaceDiagram(RunExtractor([self EXCEPT !.node_counter = reset_counters.node_counter,
                                           !.edge_counter = reset_counters.edge_counter],
                              mermaid_text))


(***************************************************************************)
(* The converter as a state machine: conversions of whole sources, one     *)
(* after the other on one MermaidToDrawioConverter instance                *)
(***************************************************************************)

Self == [node_counter |-> node_counter, edge_counter |-> edge_counter,
         flow_direction |-> flow_direction]

\* MermaidToDrawioConverter() (lines 37-39): flow_direction is no attribute yet
FreshSelf == [node_counter |-> 1, edge_counter |-> 1, flow_direction |-> "unset"]

Nothing == [raised |-> "nothing"]

Lines(strs) == [k \in 1..Len(strs) |-> Chars(strs[k])]

\* The sources the model converts.  A source is some keyword lines followed
\* by a body; every body is tried under every set of keyword lines, with
\* the keyword of the lowest priority first.
KeywordHeaders ==
    {<<>>,
     <<"sequenceDiagram">>, <<"erDiagram">>, <<"stateDiagram-v2">>,
     <<"erDiagram", "sequenceDiagram">>, <<"stateDiagram", "sequenceDiagram">>,
     <<"stateDiagram", "erDiagram">>,
     <<"stateDiagram", "erDiagram", "sequenceDiagram">>}

Bodies ==
    {<<"A[Start] --> B{Decide}", "B -->|yes| C(End)">>,
     <<"participant A as Alice", "A->>B: hi", "B-->>A: ok">>,
     <<"USER {", "  string name", "}", "USER ||--o{ ORDER : places">>,
     <<"[*] --> Idle", "Idle --> Run : go", "Run --> [*]">>}

FlowHeaders == {<<"graph TD">>, <<"graph LR">>, <<"flowchart RL">>, <<"graph BT">>}

FlowBodies ==
    {<<"A[Start] --> B{Decide}", "B -->|yes| C(End)">>,
     <<"A --> B", "B --> A", "C((c)) --> A">>,
     <<"A --> B", "B --> A">>,
     <<"A --> B --> C", "D[(db)]">>,
     <<"A[x]", "B">>}

\* an ER diagram of two entity blocks and one relationship
ERDiagramText ==
    Lines(<<"erDiagram", "USER {", "  string name", "}", "ORDER {", "  int id", "}",
            "USER ||--o{ ORDER : places">>)

Texts ==
    {Lines(h \o b) : h \in KeywordHeaders, b \in Bodies}
    \cup {Lines(h \o b) : h \in FlowHeaders \cup {<<>>}, b \in FlowBodies}
    \cup {ERDiagramText}

\* the sources convert_multiple_files is given
BatchTexts ==
    {Lines(<<"graph LR", "A --> B", "B --> A", "C((c)) --> A">>),
     Lines(<<"A[Start] --> B{Decide}", "B -->|yes| C(End)">>),
     Lines(<<"erDiagram", "USER {", "  string name", "}", "USER ||--o{ ORDER : places">>)}

\* the longest list of files convert_multiple_files is given
MaxFiles == 3

FileLists == UNION {[1..n -> BatchTexts] : n \in 0..MaxFiles}

\* no classifier call and no batch is under way
Idle ==
    /\ token = <<>>
    /\ shaped = Nothing
    /\ again = Nothing
    /\ driver = "none"
    /\ outputs = <<>>
    /\ log = <<>>

Init ==
    /\ node_counter = 1
    /\ edge_counter = 1
    /\ flow_direction = "unset"
    /\ pc = "idle"
    /\ text = <<>>
    /\ result = Nothing
    /\ files = <<>>
    /\ pages = <<>>
    /\ kind = "none"
    /\ parser = Nothing
    /\ fed = 0
    /\ expect = Nothing
    /\ levelling = Nothing
    /\ Idle

\* a caller (convert_single_file, line 831) converts one source
ConvertMermaidToDrawio ==
    /\ pc = "idle"
    /\ \E t \in Texts :
          /\ text' = t
          /\ result' = convert_mermaid_to_drawio(Self, t)
    /\ node_counter' = result'.self.node_counter
    /\ edge_counter' = result'.self.edge_counter
    /\ flow_direction' = result'.self.flow_direction
    /\ pc' = "converted"
    /\ UNCHANGED <<files, pages, kind, parser, fed, expect, levelling>>
    /\ UNCHANGED others

\* the caller saves the tree and returns (line 832); the locals are gone
SaveDrawioFile ==
    /\ pc = "converted"
    /\ pc' = "idle"
    /\ text' = <<>>
    /\ result' = Nothing
    /\ UNCHANGED <<node_counter, edge_counter, flow_direction, files, pages,
                   kind, parser, fed, expect, levelling>>
    /\ UNCHANGED others

\* convert_multiple_files(mmd_files, output_file), line 837: the empty root
ConvertMultipleFiles ==
    /\ pc = "idle"
    /\ \E fs \in FileLists : files' = fs
    /\ pages' = <<>>
    /\ pc' = "combining"
    /\ UNCHANGED <<node_counter, edge_counter, flow_direction, text, result,
                   kind, parser, fed, expect, levelling>>
    /\ UNCHANGED others

\* lines 839-851: one iteration of the loop over mmd_files
ConvertNextFile ==
    /\ pc = "combining"
    /\ Len(pages) < Len(files)
    /\ text' = files[Len(pages) + 1]
    /\ result' = convert_mermaid_to_drawio(Self, text')
    /\ pages' = Append(pages, [result' EXCEPT !.id = "diagram" \o ToString(Len(pages) + 1)])
    /\ node_counter' = result'.self.node_counter
    /\ edge_counter' = result'.self.edge_counter
    /\ flow_direction' = result'.self.flow_direction
    /\ UNCHANGED <<pc, files, kind, parser, fed, expect, levelling>>
    /\ UNCHANGED others

\* line 853: the root is saved
SaveCombined ==
    /\ pc = "combining"
    /\ Len(pages) = Len(files)
    /\ pc' = "combined"
    /\ text' = <<>>
    /\ result' = Nothing
    /\ UNCHANGED <<node_counter, edge_counter, flow_direction, files, pages,
                   kind, parser, fed, expect, levelling>>
    /\ UNCHANGED others

\* convert_multiple_files returns
ReturnCombined ==
    /\ pc = "combined"
    /\ pc' = "idle"
    /\ files' = <<>>
    /\ pages' = <<>>
    /\ UNCHANGED <<node_counter, edge_counter, flow_direction, text, result,
                   kind, parser, fed, expect, levelling>>
    /\ UNCHANGED others

Next ==
    \/ ConvertMermaidToDrawio
    \/ SaveDrawioFile
    \/ ConvertMultipleFiles
    \/ ConvertNextFile
    \/ SaveCombined
    \/ ReturnCombined

Spec == Init /\ [][Next]_vars


(***************************************************************************)
(* The extractors line by line: one extractor call on one converter, the   *)
(* body of its loop over the lines as the step                             *)
(***************************************************************************)

\* the longest source an extractor is given, in lines
MaxLines == 3

\* A flowchart line as its author means it: a keyword line, or node
\* references (a name and a shape token, "" for none) joined by arrows.
Ref(name, shape) == [name |-> name, shape |-> shape]

FlowSourceLines ==
    {[keyword |-> "graph LR", refs |-> <<>>, arrows |-> <<>>],
     [keyword |-> "", refs |-> <<Ref("A", ""), Ref("B", "")>>, arrows |-> <<"-->">>],
     [keyword |-> "", refs |-> <<Ref("B", ""), Ref("C", "")>>, arrows |-> <<"-.->">>],
     [keyword |-> "", refs |-> <<Ref("A", "[Start]"), Ref("B", "{Decide}")>>,
      arrows |-> <<"-->">>],
     [keyword |-> "", refs |-> <<Ref("B", ""), Ref("C", "(End)")>>, arrows |-> <<"-->|yes|">>],
     [keyword |-> "", refs |-> <<Ref("C", "((c))"), Ref("A", "")>>, arrows |-> <<"==>">>],
     [keyword |-> "", refs |-> <<Ref("D", ""), Ref("C", "")>>, arrows |-> <<"---">>],
     [keyword |-> "", refs |-> <<Ref("A", ""), Ref("B", ""), Ref("C", "")>>,
      arrows |-> <<"-->", "-->">>],
     [keyword |-> "", refs |-> <<Ref("D", "[(db)]")>>, arrows |-> <<>>],
     [keyword |-> "", refs |-> <<Ref("B", ""), Ref("B", "")>>, arrows |-> <<"-->">>],
     [keyword |-> "", refs |-> <<Ref("B", "[B]"), Ref("C", "")>>, arrows |-> <<"-->">>]}

\* the text of such a line
RECURSIVE ChainText(_, _, _)
ChainText(refs, arrows, k) ==
    IF k > Len(refs) THEN ""
    ELSE (IF k > 1 THEN " " \o arrows[k - 1] \o " " ELSE "")
         \o refs[k].name \o refs[k].shape \o ChainText(refs, arrows, k + 1)

SourceText(d) == Chars(d.keyword \o ChainText(d.refs, d.arrows, 1))

\* A sequence line as its author means it: a message `From <arrow> To :
\* text`, the declaration of a participant, or another line.
Message(from, arrow, to, message) ==
    [form |-> "message", from |-> from, to |-> to, message |-> message,
     line |-> from \o " " \o arrow \o " " \o to \o " : " \o message]

Declaration(line, name) == [form |-> "participant", name |-> name, line |-> line]

OtherLine(line) == [form |-> "other", line |-> line]

\* the lines the sequence extractor is given: a message for every arrow
\* line 292 lists
\* a line that starts with Note, loop, alt or opt (lines 321-326)
Reserved(line) == [form |-> "reserved", line |-> line]

SequenceSourceLines ==
    {OtherLine("sequenceDiagram"), OtherLine("B-->>A: ok"),
     Declaration("participant A as Alice", "A"), Declaration("actor B", "B"),
     Message("C", "-x", "A", "no"), Message("B", "->>", "B", "a: b"),
     Reserved("Note over A: thinks"), Reserved("loop every 5s"), Reserved("alt success"),
     Reserved("opt cache-hit: yes")}
    \cup {Message("A", SequenceArrows[k], "B", "hi") : k \in 1..Len(SequenceArrows)}

\* the names in the order their author expects them registered
Registered(order, names) ==
    order \o SelectSeq(names, LAMBDA n : \A k \in 1..Len(order) : order[k] # n)

\* what the author means by the line d, fed when the extractor's locals
\* were p and leaving them as q: a reserved line adds nothing
SequenceMeant(e, d, p, q) ==
    IF d.form = "reserved"
    THEN [e EXCEPT !.reserved = @ + 1,
                   !.silent = @ /\ q.nodes = p.nodes /\ q.edges = p.edges]
    ELSE IF d.form = "message"
    THEN [e EXCEPT !.messages = Append(@, [from |-> Chars(d.from), to |-> Chars(d.to),
                                          label |-> Chars(d.message)]),
                   !.order = Registered(Registered(@, <<Chars(d.from)>>), <<Chars(d.to)>>)]
    ELSE IF d.form = "participant"
    THEN [e EXCEPT !.order = Registered(@, <<Chars(d.name)>>)]
    ELSE e

\* An ER line as its author means it: a relationship `EntityA <cardinality>
\* EntityB : label`, a line that opens the block of an entity, the line
\* that closes a block, the keyword line, or another line.
Relationship(from, cardinality, to, label) ==
    [form |-> "relationship", from |-> from, to |-> to, label |-> label,
     line |-> from \o " " \o cardinality \o " " \o to \o " : " \o label]

BlockOpen(line, name) == [form |-> "open", name |-> name, line |-> line]

ERSourceLines ==
    {[form |-> "keyword", line |-> "erDiagram"],
     BlockOpen("USER {", "USER"), BlockOpen("{", ""),
     [form |-> "close", line |-> "}"],
     OtherLine("  string name"), OtherLine("ORDER"), OtherLine("ITEM : odd"),
     Relationship("USER", "||--o{", "ORDER", "places"),
     Relationship("ORDER", "}o--||", "ITEM", "has"),
     Relationship("USER", "||..o{", "ITEM", "sees"),
     Relationship("ORDER", "}|--|{", "ITEM", "holds")}

\* what the author means by the line d, fed when the extractor's locals
\* were p and leaving them as q: in a block every line is an attribute of
\* the block's entity and adds no entity and no relationship
ERMeant(e, d, p, q) ==
    IF d.form = "keyword" THEN e
    ELSE IF d.form = "open"
    THEN [e EXCEPT !.in_block = TRUE, !.entity = Chars(d.name)]
    ELSE IF d.form = "close"
    THEN [e EXCEPT !.in_block = FALSE]
    ELSE IF e.in_block
    THEN [e EXCEPT !.attributes = Append(@, [entity |-> e.entity,
                                             line |-> Strip(Chars(d.line))]),
                   !.silent = @ /\ Len(q.nodes) = Len(p.nodes)
                                /\ Len(q.edges) = Len(p.edges)]
    ELSE IF d.form = "relationship"
    THEN [e EXCEPT !.relationships = Append(@, [from |-> Chars(d.from), to |-> Chars(d.to),
                                               label |-> Chars(d.label)])]
    ELSE e

\* A state line as its author means it: a transition `From --> To` or
\* `From --> To : label`, From and To being a state name or one of the
\* sentinels [*] and *, or another line.
Transition(from, to, label) ==
    [form |-> "transition", from |-> from, to |-> to,
     line |-> from \o " --> " \o to \o (IF label = "" THEN "" ELSE " : " \o label)]

StateSourceLines ==
    {OtherLine("stateDiagram-v2"), OtherLine("state Idle"),
     Transition("[*]", "Idle", ""), Transition("Idle", "Run", "go"),
     Transition("Run", "[*]", ""), Transition("Idle", "Idle", ""),
     Transition("", "Run", ""), Transition("End", "Start", ""),
     Transition("*", "*", ""), Transition("[*]", "Start", "")}

StateMeant(e, d) ==
    IF d.form = "transition"
    THEN [e EXCEPT !.transitions = Append(@, [from |-> Chars(d.from), to |-> Chars(d.to)])]
    ELSE e

\* the locals of an extractor when its loop starts, on a converter whose
\* counters are 1 (a new converter, or one after reset_counters)
StartOf(k) ==
    [nodes |-> <<>>, edges |-> <<>>, node_counter |-> 1, edge_counter |-> 1,
     flow_direction |-> IF k = "flowchart" THEN "TD" ELSE "unset"]
    @@ (IF k = "er" THEN [current_entity |-> None, in_entity_block |-> FALSE] ELSE <<>>)

\* what the author of the lines fed so far means: the names, the number of
\* arrow connections, and the node references in the order they were written
NothingMeant ==
    [names |-> {}, edges |-> 0, refs |-> <<>>, messages |-> <<>>, order |-> <<>>,
     in_block |-> FALSE, entity |-> None, attributes |-> <<>>, silent |-> TRUE,
     relationships |-> <<>>, reserved |-> 0, transitions |-> <<>>]

ExtractInit ==
    /\ kind \in {"flowchart", "sequence", "er", "state"}
    /\ parser = StartOf(kind)
    /\ node_counter = 1
    /\ edge_counter = 1
    /\ flow_direction = parser.flow_direction
    /\ pc = "extracting"
    /\ text = <<>>
    /\ fed = 0
    /\ expect = NothingMeant
    /\ result = Nothing
    /\ files = <<>>
    /\ pages = <<>>
    /\ levelling = Nothing
    /\ Idle

\* the converter's fields follow the extractor's
Fed ==
    /\ fed' = fed + 1
    /\ node_counter' = parser'.node_counter
    /\ edge_counter' = parser'.edge_counter
    /\ flow_direction' = parser'.flow_direction
    /\ UNCHANGED <<pc, kind, result, files, pages, levelling>>
    /\ UNCHANGED others

\* parse_mermaid_flowchart, lines 128-228 for the next line
FeedFlowLine ==
    /\ pc = "extracting" /\ kind = "flowchart" /\ fed < MaxLines
    /\ \E d \in FlowSourceLines :
          /\ text' = Append(text, SourceText(d))
          /\ expect' = [expect EXCEPT
                          !.names = @ \cup {Chars(d.refs[k].name) : k \in DOMAIN d.refs},
                          !.edges = @ + Len(d.arrows),
                          !.refs = @ \o d.refs]
    /\ parser' = FlowLine(parser, text'[Len(text')])
    /\ Fed

\* parse_mermaid_sequence, lines 273-326 for the next line
FeedSequenceLine ==
    /\ pc = "extracting" /\ kind = "sequence" /\ fed < MaxLines
    /\ \E d \in SequenceSourceLines :
          /\ text' = Append(text, Chars(d.line))
          /\ parser' = SequenceLine(parser, text'[Len(text')])
          /\ expect' = SequenceMeant(expect, d, parser, parser')
    /\ Fed

\* parse_mermaid_er, lines 339-419 for the next line
FeedERLine ==
    /\ pc = "extracting" /\ kind = "er" /\ fed < MaxLines
    /\ \E d \in ERSourceLines :
          /\ text' = Append(text, Chars(d.line))
          /\ parser' = ERLine(parser, text'[Len(text')])
          /\ expect' = ERMeant(expect, d, parser, parser')
    /\ Fed

\* parse_mermaid_state, lines 467-509 for the next line
FeedStateLine ==
    /\ pc = "extracting" /\ kind = "state" /\ fed < MaxLines
    /\ \E d \in StateSourceLines :
          /\ text' = Append(text, Chars(d.line))
          /\ expect' = StateMeant(expect, d)
    /\ parser' = StateLine(parser, text'[Len(text')])
    /\ Fed

\* return nodes, edges (lines 230, 328, 421, 511): the loop's other locals
\* are gone
ReturnExtracted ==
    /\ pc = "extracting"
    /\ pc' = "extracted"
    /\ parser' = [nodes |-> parser.nodes, edges |-> parser.edges,
                  node_counter |-> parser.node_counter,
                  edge_counter |-> parser.edge_counter,
                  flow_direction |-> parser.flow_direction]
    /\ UNCHANGED <<node_counter, edge_counter, flow_direction, text, result, files,
                   pages, kind, fed, expect, levelling>>
    /\ UNCHANGED others

ExtractNext ==
    \/ FeedFlowLine
    \/ FeedSequenceLine
    \/ FeedERLine
    \/ FeedStateLine
    \/ ReturnExtracted

ExtractSpec == ExtractInit /\ [][ExtractNext]_vars


(***************************************************************************)
(* _calculate_node_levels round by round: one call on a node map and an    *)
(* edge list, an iteration of its while loop as the step                   *)
(***************************************************************************)

\* the largest node map and the longest edge list of a call
MaxNodes == 3
MaxEdges == 3

\* the node map of n nodes: ids are given in insertion order (line 170)
NodeMap(n) == [k \in 1..n |-> [id |-> generate_node_id(k).id]]

\* the edge lists over a node map: any ends, in any order, repeats allowed
EdgeLists(nodes) ==
    UNION {[1..m -> [from : Range(NodeIds(nodes)), to : Range(NodeIds(nodes))]] :
             m \in 0..MaxEdges}

\* the call: lines 626-636 have run
LevelsInit ==
    /\ \E n \in 1..MaxNodes :
          \E edges \in EdgeLists(NodeMap(n)) : levelling = LevelInit(NodeMap(n), edges)
    /\ pc = "level_loop"
    /\ node_counter = 1
    /\ edge_counter = 1
    /\ flow_direction = "TD"
    /\ text = <<>>
    /\ result = Nothing
    /\ files = <<>>
    /\ pages = <<>>
    /\ kind = "none"
    /\ parser = Nothing
    /\ fed = 0
    /\ expect = Nothing
    /\ Idle

\* lines 638-652: the queue is not empty, one iteration of the while loop
LevelStep ==
    /\ pc = "level_loop"
    /\ levelling.queue # <<>>
    /\ levelling' = LevelRound(levelling)
    /\ UNCHANGED <<node_counter, edge_counter, flow_direction, pc, text, result, files,
                   pages, kind, parser, fed, expect>>
    /\ UNCHANGED others

\* lines 655-659: the queue is empty, the remaining nodes get their level
\* and the levels are returned
LevelExit ==
    /\ pc = "level_loop"
    /\ levelling.queue = <<>>
    /\ levelling' = LevelRest(levelling, 1)
    /\ pc' = "levels_done"
    /\ UNCHANGED <<node_counter, edge_counter, flow_direction, text, result, files,
                   pages, kind, parser, fed, expect>>
    /\ UNCHANGED others

LevelNext ==
    \/ LevelStep
    \/ LevelExit

LevelSpec == LevelsInit /\ [][LevelNext]_vars

\* the interpreter keeps running the call
LevelFairSpec == LevelSpec /\ WF_vars(LevelNext)


(***************************************************************************)
(* Two worker threads of the UI (ui_app.py 464 and 548) converting on the  *)
(* one converter of line 48, statement by statement                        *)
(***************************************************************************)

\* the thread of convert_mmd_to_drawio and the thread of batch_process_all
Threads == {"_convert_mmd_to_drawio_thread", "_batch_process_thread"}

\* what a conversion of the lines "A --> B", "B --> C" does with the
\* counters: reset_counters (line 726), then in parse_mermaid_flowchart an id
\* for every new name and an id for every connection
Work ==
    <<[op |-> "reset"],
      [op |-> "node", name |-> "A"], [op |-> "node", name |-> "B"],
      [op |-> "edge", from |-> "A", to |-> "B"],
      [op |-> "node", name |-> "C"],
      [op |-> "edge", from |-> "B", to |-> "C"]>>

\* the locals of a thread before its conversion: the call it is at, how far
\* it is in the call, the id and the counter value it holds, and the nodes
\* and edges dictionaries of its extractor call
ThreadStart ==
    [at |-> 1, step |-> "call", id |-> "", loaded |-> 0, nodes |-> <<>>, edges |-> <<>>]

\* both threads have been started and neither has run; the counters are as
\* __init__ leaves them
ThreadsInit ==
    /\ parser = [t \in Threads |-> ThreadStart]
    /\ pc = "threads"
    /\ node_counter = 1
    /\ edge_counter = 1
    /\ flow_direction = "unset"
    /\ text = Lines(<<"A --> B", "B --> C">>)
    /\ result = Nothing
    /\ files = <<>>
    /\ pages = <<>>
    /\ kind = "flowchart"
    /\ fed = 0
    /\ expect = Nothing
    /\ levelling = Nothing
    /\ Idle

\* the call the thread is at
Op(t) == IF parser[t].at > Len(Work) THEN "done" ELSE Work[parser[t].at].op

\* the id the thread's nodes dictionary has for the name
IdOfName(nodes, name) == nodes[CHOOSE k \in 1..Len(nodes) : nodes[k].name = name].id

\* the variables a thread step leaves alone besides the counters
NotThreads ==
    UNCHANGED <<flow_direction, pc, text, result, files, pages, kind, fed, expect,
                levelling>>

\* line 55: self.node_counter = 1
ResetNodeCounter ==
    /\ pc = "threads"
    /\ \E t \in Threads :
          /\ Op(t) = "reset" /\ parser[t].step = "call"
          /\ parser' = [parser EXCEPT ![t].step = "half"]
    /\ node_counter' = reset_counters.node_counter
    /\ UNCHANGED edge_counter
    /\ NotThreads
    /\ UNCHANGED others

\* line 56: self.edge_counter = 1
ResetEdgeCounter ==
    /\ pc = "threads"
    /\ \E t \in Threads :
          /\ Op(t) = "reset" /\ parser[t].step = "half"
          /\ parser' = [parser EXCEPT ![t].step = "call", ![t].at = @ + 1]
    /\ edge_counter' = reset_counters.edge_counter
    /\ UNCHANGED node_counter
    /\ NotThreads
    /\ UNCHANGED others

\* line 43: node_id = "node" + str(self.node_counter)
FormNodeId ==
    /\ pc = "threads"
    /\ \E t \in Threads :
          /\ Op(t) = "node" /\ parser[t].step = "call"
          /\ parser' = [parser EXCEPT ![t].step = "formed",
                                      ![t].id = generate_node_id(node_counter).id]
    /\ UNCHANGED <<node_counter, edge_counter>>
    /\ NotThreads
    /\ UNCHANGED others

\* line 44, self.node_counter += 1: the attribute is loaded
LoadNodeCounter ==
    /\ pc = "threads"
    /\ \E t \in Threads :
          /\ Op(t) = "node" /\ parser[t].step = "formed"
          /\ parser' = [parser EXCEPT ![t].step = "loaded", ![t].loaded = node_counter]
    /\ UNCHANGED <<node_counter, edge_counter>>
    /\ NotThreads
    /\ UNCHANGED others

\* lines 44-45: the sum is stored and the id returned; the extractor puts
\* the node into its dictionary
StoreNodeCounter ==
    /\ pc = "threads"
    /\ \E t \in Threads :
          /\ Op(t) = "node" /\ parser[t].step = "loaded"
          /\ node_counter' = generate_node_id(parser[t].loaded).counter
          /\ parser' = [parser EXCEPT
                           ![t].step = "call", ![t].at = @ + 1,
                           ![t].nodes = Append(@, [name |-> Work[parser[t].at].name,
                                                   id |-> parser[t].id])]
    /\ UNCHANGED edge_counter
    /\ NotThreads
    /\ UNCHANGED others

\* line 49: edge_id = "edge" + str(self.edge_counter)
FormEdgeId ==
    /\ pc = "threads"
    /\ \E t \in Threads :
          /\ Op(t) = "edge" /\ parser[t].step = "call"
          /\ parser' = [parser EXCEPT ![t].step = "formed",
                                      ![t].id = generate_edge_id(edge_counter).id]
    /\ UNCHANGED <<node_counter, edge_counter>>
    /\ NotThreads
    /\ UNCHANGED others

\* line 50, self.edge_counter += 1: the attribute is loaded
LoadEdgeCounter ==
    /\ pc = "threads"
    /\ \E t \in Threads :
          /\ Op(t) = "edge" /\ parser[t].step = "formed"
          /\ parser' = [parser EXCEPT ![t].step = "loaded", ![t].loaded = edge_counter]
    /\ UNCHANGED <<node_counter, edge_counter>>
    /\ NotThreads
    /\ UNCHANGED others

\* lines 50-51: the sum is stored and the id returned; the extractor
\* appends the edge between the ids its dictionary has for the two names
StoreEdgeCounter ==
    /\ pc = "threads"
    /\ \E t \in Threads :
          /\ Op(t) = "edge" /\ parser[t].step = "loaded"
          /\ edge_counter' = generate_edge_id(parser[t].loaded).counter
          /\ parser' = [parser EXCEPT
                           ![t].step = "call", ![t].at = @ + 1,
                           ![t].edges = Append(@,
                               [id |-> parser[t].id,
                                from |-> IdOfName(parser[t].nodes, Work[parser[t].at].from),
                                to |-> IdOfName(parser[t].nodes, Work[parser[t].at].to)])]
    /\ UNCHANGED node_counter
    /\ NotThreads
    /\ UNCHANGED others

ThreadsNext ==
    \/ ResetNodeCounter
    \/ ResetEdgeCounter
    \/ FormNodeId
    \/ LoadNodeCounter
    \/ StoreNodeCounter
    \/ FormEdgeId
    \/ LoadEdgeCounter
    \/ StoreEdgeCounter

ThreadsSpec == ThreadsInit /\ [][ThreadsNext]_vars


(***************************************************************************)
(* calculate_positions as a function of the extractor output: node maps of *)
(* every kind, with and without edges                                      *)
(***************************************************************************)

\* the most nodes of a diagram that is laid out on a grid or in a row
MaxGrid == 17

\* the most attributes of an ER entity
MaxAttributes == 9

\* n entities of a attributes each, as parse_mermaid_er leaves them
EntityMap(n, a) ==
    [k \in 1..n |-> [id |-> generate_node_id(k).id,
                     attributes |-> [j \in 1..a |-> Chars("int id")]]]

\* what the extractors hand to calculate_positions (line 743)
Extracted ==
    {[diagram_type |-> t, nodes |-> NodeMap(n), edges |-> <<>>] :
        t \in {"flowchart", "sequence", "state"}, n \in 1..MaxGrid}
    \union {[diagram_type |-> "er", nodes |-> EntityMap(n, a), edges |-> <<>>] :
        n \in 1..MaxGrid, a \in 0..MaxAttributes}
    \union UNION {{[diagram_type |-> "flowchart", nodes |-> NodeMap(n), edges |-> e] :
                      e \in EdgeLists(NodeMap(n))} : n \in 1..MaxNodes}

\* the extractor has returned; the direction is the one its header left
LayoutInit ==
    /\ parser \in Extracted
    /\ flow_direction \in {"TD", "LR"}
    /\ pc = "layout"
    /\ kind = "none"
    /\ node_counter = 1
    /\ edge_counter = 1
    /\ text = <<>>
    /\ result = Nothing
    /\ files = <<>>
    /\ pages = <<>>
    /\ fed = 0
    /\ expect = Nothing
    /\ levelling = Nothing
    /\ Idle

\* line 743: positions = self.calculate_positions(nodes, edges, diagram_type)
CalculatePositions ==
    /\ pc = "layout"
    /\ result' = calculate_positions(flow_direction, parser.nodes, parser.edges,
                                     parser.diagram_type)
    /\ pc' = "placed"
    /\ UNCHANGED <<node_counter, edge_counter, flow_direction, text, files, pages, kind,
                   parser, fed, expect, levelling>>
    /\ UNCHANGED others

LayoutNext == CalculatePositions

LayoutSpec == LayoutInit /\ [][LayoutNext]_vars


(***************************************************************************)
(* parse_node_shape call by call: the classifier on one token, and then on *)
(* the label it returned                                                   *)
(***************************************************************************)

\* the longest token built from the alphabet
MaxToken == 4

\* the delimiter characters and one label character
ShapeAlphabet == {"[", "]", "(", ")", "{", "}", ">", "a"}

\* tokens as flowchart lines carry them, and tokens without a closer
WrittenTokens ==
    {"[Start]", "{Decide}", "(End)", "[[sub]]", "{{hex}}", "((c))", "[(db)]", ">flag]",
     "([a])", "[{a}]", "[unterminated", "((open)", "A"}

Tokens ==
    UNION {[1..n -> ShapeAlphabet] : n \in 0..MaxToken} \cup {Chars(t) : t \in WrittenTokens}

ShapeInit ==
    /\ token \in Tokens
    /\ shaped = Nothing
    /\ again = Nothing
    /\ pc = "token"
    /\ driver = "none"
    /\ outputs = <<>>
    /\ log = <<>>
    /\ node_counter = 1
    /\ edge_counter = 1
    /\ flow_direction = "unset"
    /\ text = <<>>
    /\ result = Nothing
    /\ files = <<>>
    /\ pages = <<>>
    /\ kind = "none"
    /\ parser = Nothing
    /\ fed = 0
    /\ expect = Nothing
    /\ levelling = Nothing

\* the variables parse_node_shape does not touch
NotShape ==
    <<node_counter, edge_counter, flow_direction, text, result, files, pages, kind,
      parser, fed, expect, levelling, driver, outputs, log>>

\* label, style = self.parse_node_shape(token)
ParseNodeShape ==
    /\ pc = "token"
    /\ shaped' = parse_node_shape(token)
    /\ pc' = "label"
    /\ UNCHANGED <<token, again>>
    /\ UNCHANGED NotShape

\* self.parse_node_shape(label)
ParseLabel ==
    /\ pc = "label"
    /\ again' = parse_node_shape(shaped.label)
    /\ pc' = "classified"
    /\ UNCHANGED <<token, shaped>>
    /\ UNCHANGED NotShape

ShapeNext ==
    \/ ParseNodeShape
    \/ ParseLabel

ShapeSpec == ShapeInit /\ [][ShapeNext]_vars


(***************************************************************************)
(* The batch drivers: process_mmd_files (mmd2drawio.py 885-891) and the    *)
(* UI thread (ui_app.py 468-496) converting a list of files one by one,    *)
(* one output per file, with convert_single_file                           *)
(***************************************************************************)

\* a file of the batch: its content, and whether open() succeeds on it
\* ("unreadable": open(mmd_file, 'r') raises OSError; "unwritable":
\* open(output_file, 'w') in save_drawio_file raises OSError)
BatchFiles ==
    {[io |-> "ok", content |-> t] : t \in BatchTexts}
    \cup {[io |-> "unreadable", content |-> <<>>]}
    \cup {[io |-> "unwritable", content |-> Lines(<<"A[Start] --> B{Decide}">>)]}

\* the lists of files a batch is given: the drivers return before the loop
\* when the list is empty
Batches == UNION {[1..n -> BatchFiles] : n \in 1..MaxFiles}

BatchInit ==
    /\ driver \in {"process_mmd_files", "_convert_mmd_to_drawio_thread"}
    /\ files \in Batches
    /\ fed = 0
    /\ outputs = <<>>
    /\ log = <<>>
    /\ pc = "batch"
    /\ node_counter = 1
    /\ edge_counter = 1
    /\ flow_direction = "unset"
    /\ text = <<>>
    /\ result = Nothing
    /\ pages = <<>>
    /\ kind = "none"
    /\ parser = Nothing
    /\ expect = Nothing
    /\ levelling = Nothing
    /\ token = <<>>
    /\ shaped = Nothing
    /\ again = Nothing

\* convert_single_file(mmd_file, output_file), lines 825-832, on the next
\* file of the list: the file is read (827-828), converted (831) and saved
\* (832); "raised" tells whether one of the two open() calls raised
ConvertSingleFile ==
    /\ text' = files[fed + 1].content
    /\ result' = IF files[fed + 1].io = "unreadable" THEN Nothing
                 ELSE convert_mermaid_to_drawio(Self, text')
    /\ node_counter' = IF result' = Nothing THEN node_counter
                       ELSE result'.self.node_counter
    /\ edge_counter' = IF result' = Nothing THEN edge_counter
                       ELSE result'.self.edge_counter
    /\ flow_direction' = IF result' = Nothing THEN flow_direction
                         ELSE result'.self.flow_direction
    /\ outputs' = IF files[fed + 1].io = "ok"
                  THEN Append(outputs, [file |-> fed + 1, cells |-> result'.cells])
                  ELSE outputs
    /\ UNCHANGED <<files, pages, kind, parser, expect, levelling, driver, token, shaped,
                   again>>

\* mmd2drawio.py 886-891: one iteration of the loop of process_mmd_files.
\* The call of line 890 is in no try block, nor is the call of
\* process_mmd_files in main (line 914): an OSError ends the program.
ProcessNextFile ==
    /\ pc = "batch" /\ driver = "process_mmd_files"
    /\ fed < Len(files)
    /\ ConvertSingleFile
    /\ IF files[fed + 1].io = "ok"
       THEN /\ log' = Append(log, [file |-> fed + 1, report |-> "Converted"])
            /\ fed' = fed + 1
            /\ pc' = "batch"
       ELSE /\ log' = log
            /\ fed' = fed
            /\ pc' = "raised"

\* the loop of process_mmd_files is over: it returns, and main prints
\* "Conversion completed!" (line 915)
ProcessReturn ==
    /\ pc = "batch" /\ driver = "process_mmd_files"
    /\ fed = Len(files)
    /\ log' = Append(log, [file |-> 0, report |-> "Conversion completed!"])
    /\ pc' = "returned"
    /\ UNCHANGED <<node_counter, edge_counter, flow_direction, text, result, files, pages,
                   kind, parser, fed, expect, levelling, token, shaped, again, driver,
                   outputs>>

\* ui_app.py 484-490: one iteration of the loop of the thread function.
\* The try of line 470 encloses the whole loop: the handler (494-496)
\* reports the error and the function ends.
ThreadNextFile ==
    /\ pc = "batch" /\ driver = "_convert_mmd_to_drawio_thread"
    /\ fed < Len(files)
    /\ ConvertSingleFile
    /\ IF files[fed + 1].io = "ok"
       THEN /\ log' = Append(log, [file |-> fed + 1, report |-> "Created"])
            /\ fed' = fed + 1
            /\ pc' = "batch"
       ELSE /\ log' = Append(log, [file |-> fed + 1, report |-> "Error during conversion"])
            /\ fed' = fed
            /\ pc' = "returned"

\* ui_app.py 492: the loop is over
ThreadReturn ==
    /\ pc = "batch" /\ driver = "_convert_mmd_to_drawio_thread"
    /\ fed = Len(files)
    /\ log' = Append(log, [file |-> 0, report |-> "completed successfully"])
    /\ pc' = "returned"
    /\ UNCHANGED <<node_counter, edge_counter, flow_direction, text, result, files, pages,
                   kind, parser, fed, expect, levelling, token, shaped, again, driver,
                   outputs>>

BatchNext ==
    \/ ProcessNextFile
    \/ ProcessReturn
    \/ ThreadNextFile
    \/ ThreadReturn

BatchSpec == BatchInit /\ [][BatchNext]_vars


(***************************************************************************)
(* Combined mode: convert_multiple_files (mmd2drawio.py 834-853) on a list *)
(* of files some of which cannot be read                                   *)
(***************************************************************************)

\* the lists of input files of a combined conversion
CombinedBatches ==
    UNION {[1..n -> {f \in BatchFiles : f.io # "unwritable"}] : n \in 1..MaxFiles}

\* line 837: the root element is there, no file has been opened
CombineInit ==
    /\ driver = "convert_multiple_files"
    /\ files \in CombinedBatches
    /\ fed = 0
    /\ pages = <<>>
    /\ outputs = <<>>
    /\ log = <<>>
    /\ pc = "combining"
    /\ node_counter = 1
    /\ edge_counter = 1
    /\ flow_direction = "unset"
    /\ text = <<>>
    /\ result = Nothing
    /\ kind = "none"
    /\ parser = Nothing
    /\ expect = Nothing
    /\ levelling = Nothing
    /\ token = <<>>
    /\ shaped = Nothing
    /\ again = Nothing

\* a loop that saves the root after every diagram it appends
CombineSavingEachPage ==
    /\ pc = "combining"
    /\ fed < Len(files)
    /\ text' = files[fed + 1].content
    /\ result' = IF files[fed + 1].io = "unreadable" THEN Nothing
                 ELSE convert_mermaid_to_drawio(Self, text')
    /\ node_counter' = IF result' = Nothing THEN node_counter
                       ELSE result'.self.node_counter
    /\ edge_counter' = IF result' = Nothing THEN edge_counter
                       ELSE result'.self.edge_counter
    /\ flow_direction' = IF result' = Nothing THEN flow_direction
                         ELSE result'.self.flow_direction
    /\ IF result' = Nothing \/ result'.raised # ""
       THEN /\ pages' = pages
            /\ fed' = fed
            /\ outputs' = outputs
            /\ pc' = "raised"
       ELSE /\ pages' = Append(pages,
                           [result' EXCEPT !.id = "diagram" \o ToString(fed + 1)])
            /\ fed' = fed + 1
            /\ outputs' = <<[file |-> 0, pages |-> pages']>>
            /\ pc' = "combining"
    /\ UNCHANGED <<files, kind, parser, expect, levelling, driver, log, token, shaped,
                   again>>

\* lines 839-851: one iteration of the loop over mmd_files: the file is
\* opened and read (840-841), converted (846) and its diagram appended to
\* the root (849-851).  Nothing catches what open() or the conversion
\* raises: the function is left.
CombineNextFile ==
    /\ pc = "combining"
    /\ fed < Len(files)
    /\ text' = files[fed + 1].content
    /\ result' = IF files[fed + 1].io = "unreadable" THEN Nothing
                 ELSE convert_mermaid_to_drawio(Self, text')
    /\ node_counter' = IF result' = Nothing THEN node_counter
                       ELSE result'.self.node_counter
    /\ edge_counter' = IF result' = Nothing THEN edge_counter
                       ELSE result'.self.edge_counter
    /\ flow_direction' = IF result' = Nothing THEN flow_direction
                         ELSE result'.self.flow_direction
    /\ IF result' = Nothing \/ result'.raised # ""
       THEN /\ pages' = pages
            /\ fed' = fed
            /\ pc' = "raised"
       ELSE /\ pages' = Append(pages,
                           [result' EXCEPT !.id = "diagram" \o ToString(fed + 1)])
            /\ fed' = fed + 1
            /\ pc' = "combining"
    /\ UNCHANGED <<files, kind, parser, expect, levelling, driver, outputs, log, token,
                   shaped, again>>

\* line 853 with save_drawio_file (812-823): the loop is over and the root
\* is written to the output file
CombineSave ==
    /\ pc = "combining"
    /\ fed = Len(files)
    /\ outputs' = Append(outputs, [file |-> 0, pages |-> pages])
    /\ pc' = "returned"
    /\ UNCHANGED <<node_counter, edge_counter, flow_direction, text, result, files, pages,
                   kind, parser, fed, expect, levelling, token, shaped, again, driver, log>>

\* line 853, the output file cannot be opened for writing: open() in
\* save_drawio_file (line 822) raises
CombineSaveFails ==
    /\ pc = "combining"
    /\ fed = Len(files)
    /\ pc' = "raised"
    /\ UNCHANGED <<node_counter, edge_counter, flow_direction, text, result, files, pages,
                   kind, parser, fed, expect, levelling, token, shaped, again, driver, log,
                   outputs>>

CombineNext ==
    \/ CombineNextFile
    \/ CombineSave
    \/ CombineSaveFails

CombineSpec == CombineInit /\ [][CombineNext]_vars


(***************************************************************************)
(* Properties                                                              *)
(***************************************************************************)

Converted == result.raised # "nothing"

IdOf(nodes, name) == Lookup(nodes, Chars(name)).id

ExampleSource == Lines(<<"graph TD", "A[Start] --> B{Decide}", "B -->|yes| C(End)">>)

\* C1: the source `graph TD`, `A[Start] --> B{Decide}`, `B -->|yes| C(End)`
\* yields exactly the 3 nodes A (rectangle "Start"), B (diamond "Decide"),
\* C (ellipse "End"), exactly the 2 edges A to B (no label) and B to C
\* ("yes") in this order, and the levels 0, 1 and 2 for A, B and C.
C1_ExampleFlowchart ==
    (Converted /\ text = ExampleSource) =>
        /\ [k \in 1..Len(result.nodes) |->
               <<result.nodes[k].name, result.nodes[k].label, result.nodes[k].style>>]
           = << <<Chars("A"), Chars("Start"), RectangleStyle>>,
                <<Chars("B"), Chars("Decide"), DiamondStyle>>,
                <<Chars("C"), Chars("End"), RoundStyle>> >>
        /\ [k \in 1..Len(result.edges) |->
               <<result.edges[k].from, result.edges[k].to, result.edges[k].label>>]
           = << <<IdOf(result.nodes, "A"), IdOf(result.nodes, "B"), <<>> >>,
                <<IdOf(result.nodes, "B"), IdOf(result.nodes, "C"), Chars("yes")>> >>
        /\ LevelOf(result.levels, IdOf(result.nodes, "A")) = 0
        /\ LevelOf(result.levels, IdOf(result.nodes, "B")) = 1
        /\ LevelOf(result.levels, IdOf(result.nodes, "C")) = 2

C1_ExampleConverted ==
    /\ pc = "converted"
    /\ text = ExampleSource
    /\ Len(result.nodes) = 3
    /\ Len(result.levels) = 3

\* C2: for every flowchart source with N >= 1 distinct node names and E
\* arrow connections (several on one line included), the flowchart
\* extractor has exactly N node records and exactly E edge records.
C2_CountsAsWritten ==
    (kind = "flowchart" /\ expect.names # {}) =>
        /\ Len(parser.nodes) = Cardinality(expect.names)
        /\ Len(parser.edges) = expect.edges

\* C3: whatever lines an extractor (flowchart, sequence, ER, state) has
\* processed, every edge's 'from' and 'to' are ids of nodes of its node map.
C3_EdgesResolve ==
    \A k \in 1..Len(parser.edges) :
        /\ parser.edges[k].from \in Range(NodeIds(parser.nodes))
        /\ parser.edges[k].to \in Range(NodeIds(parser.nodes))

C3_MessagesExtracted ==
    /\ kind = "sequence"
    /\ pc = "extracted"
    /\ Len(parser.edges) = 2
    /\ Len(parser.nodes) = 3

\* C4: in one conversion the k-th name entered into the node map has the id
\* node<k> and the k-th edge the id edge<k>, counting from 1, and no name
\* has two entries (so no two ids).
C4_IdsInOrder ==
    Converted =>
        /\ \A k \in 1..Len(result.nodes) : result.nodes[k].id = "node" \o ToString(k)
        /\ \A k \in 1..Len(result.edges) : result.edges[k].id = "edge" \o ToString(k)
        /\ \A j, k \in 1..Len(result.nodes) :
               result.nodes[j].name = result.nodes[k].name => j = k
        /\ node_counter = Len(result.nodes) + 1
        /\ edge_counter = Len(result.edges) + 1

\* a conversion on a converter that has converted something else before, in
\* which a name is seen again
C4_LaterConversion ==
    /\ pc = "combining"
    /\ Len(pages) = 2
    /\ Len(pages[1].nodes) = 3
    /\ Len(result.nodes) = 3
    /\ Len(result.edges) = 3

\* C5: convert_multiple_files on K diagrams gives K pages with the ids
\* diagram1..diagramK in input order, and in every page the node ids start
\* at node1 and the edge ids at edge1.
C5_Pages ==
    pc = "combined" =>
        /\ Len(pages) = Len(files)
        /\ \A i \in 1..Len(pages) :
              /\ pages[i].id = "diagram" \o ToString(i)
              /\ pages[i].nodes # <<>> => pages[i].cells[1].id = "node1"
              /\ pages[i].edges # <<>> =>
                     pages[i].cells[Len(pages[i].nodes) + 1].id = "edge1"

C5_ThreePages ==
    /\ pc = "combined"
    /\ Len(files) = 3
    /\ \A i \in 1..3 : Len(pages[i].nodes) >= 2 /\ Len(pages[i].edges) >= 1

\* what a conversion yields: ids, labels, levels, positions
Outcome(r) == <<r.nodes, r.edges, r.levels, r.positions, r.cells>>

\* C6: converting a source yields the same node ids, edge ids, labels,
\* levels and positions whatever the converter has converted before: the
\* outcome is that of a new converter, and two pages of one batch made from
\* the same source are alike.
C6_NothingLeftOver ==
    /\ Converted =>
           Outcome(result) = Outcome(convert_mermaid_to_drawio(FreshSelf, text))
    /\ \A i, j \in 1..Len(pages) :
           files[i] = files[j] => Outcome(pages[i]) = Outcome(pages[j])

\* a headerless flowchart converted, a left-to-right flowchart converted,
\* and the first converted again
C6_SameSourceAgain ==
    /\ Len(pages) = 3
    /\ files[1] = files[3]
    /\ files[1] # files[2]
    /\ pages[2].self.flow_direction = "LR"
    /\ pages[3].diagram_type = "flowchart"
    /\ Len(pages[3].levels) = 3

\* a list of edges is acyclic when its nodes can be ranked so that every
\* edge goes up in rank
Acyclic(ids, edges) ==
    \E rank \in [Range(ids) -> 1..Len(ids)] :
        \A k \in 1..Len(edges) : rank[edges[k].from] < rank[edges[k].to]

LevelsReturned == pc = "levels_done"

\* C7: for an acyclic edge list over the node map (duplicate edges allowed)
\* the levels returned put the source of every edge strictly below its
\* target.
C7_EdgesGoDown ==
    (LevelsReturned /\ Acyclic(levelling.ids, levelling.edges)) =>
        \A k \in 1..Len(levelling.edges) :
            LevelOf(levelling.levels, levelling.edges[k].from)
                < LevelOf(levelling.levels, levelling.edges[k].to)

\* an acyclic list with a duplicate edge and two edges in a row
C7_AcyclicWithDuplicate ==
    /\ LevelsReturned
    /\ Acyclic(levelling.ids, levelling.edges)
    /\ \E j, k \in 1..Len(levelling.edges) : j # k /\ levelling.edges[j] = levelling.edges[k]
    /\ \E k \in 1..Len(levelling.levels) : levelling.levels[k].level = 2

\* C8: _calculate_node_levels terminates, whatever the edge list (cycles,
\* self-loops, duplicates), and every node then has a level.
C8_Terminates ==
    <>(LevelsReturned
       /\ \A id \in Range(levelling.ids) : HasLevel(levelling.levels, id))

\* the call has returned for a list with a cycle and a duplicate edge
C8_ReturnedOnCycles ==
    /\ LevelsReturned
    /\ \E j, k \in 1..Len(levelling.edges) :
           /\ levelling.edges[j].from = levelling.edges[k].to
           /\ levelling.edges[j].to = levelling.edges[k].from
           /\ levelling.edges[j].from # levelling.edges[j].to
    /\ \E j, k \in 1..Len(levelling.edges) : j # k /\ levelling.edges[j] = levelling.edges[k]

TwoCycle == <<[from |-> "node1", to |-> "node2"], [from |-> "node2", to |-> "node1"]>>

\* C9: the nodes whose in-degree never reaches zero in the loop all get the
\* level counter reached when the loop ends, which is above every level
\* given inside the loop; the two nodes of A --> B, B --> A get the same
\* level.
C9_RestGetFinalLevel ==
    /\ \A id \in Range(levelling.ids) :
           /\ levelling.in_degree[id] >= 0
           /\ (pc = "level_loop" /\ HasLevel(levelling.levels, id)) =>
                  /\ levelling.in_degree[id] = 0
                  /\ LevelOf(levelling.levels, id) < levelling.current_level
           /\ (LevelsReturned /\ levelling.in_degree[id] = 0) =>
                  LevelOf(levelling.levels, id) < levelling.current_level
           /\ (LevelsReturned /\ levelling.in_degree[id] > 0) =>
                  LevelOf(levelling.levels, id) = levelling.current_level
    /\ (LevelsReturned /\ levelling.edges = TwoCycle) =>
           LevelOf(levelling.levels, "node1") = LevelOf(levelling.levels, "node2")

\* a node levelled in the loop, with a cycle behind it
C9_CycleBehindALevel ==
    /\ LevelsReturned
    /\ levelling.current_level = 1
    /\ Cardinality({id \in Range(levelling.ids) : levelling.in_degree[id] > 0}) = 2

Extractors ==
    <<"parse_mermaid_sequence", "parse_mermaid_er", "parse_mermaid_state",
      "parse_mermaid_flowchart">>

Keywords == <<"sequenceDiagram", "erDiagram", "stateDiagram">>

\* C10: a conversion calls exactly one extractor: the one of the first
\* keyword, in the order sequenceDiagram, erDiagram, stateDiagram, that the
\* source contains, and the flowchart one when it contains none.
C10_OneExtractorByPriority ==
    Converted =>
        /\ Len(result.called) = 1
        /\ \A e \in 1..4 :
               result.called[1] = Extractors[e] <=>
                   /\ e <= 3 => InText(text, Keywords[e])
                   /\ \A h \in 1..(e - 1) : ~InText(text, Keywords[h])

\* a source with all three keywords has been converted
C10_AllKeywords ==
    /\ Converted
    /\ \A h \in 1..3 : InText(text, Keywords[h])
    /\ result.called = <<"parse_mermaid_sequence">>
    /\ Len(result.nodes) > 0

\* the token is what line 154 takes as the shape of a source node
AcceptedShape(tok) ==
    LET m == Search(arrow_pattern, Chars("A") \o tok \o Chars(" --> B"), 6)
    IN  m.found /\ m.start = 1 /\ m.g[1] = Chars("A") /\ m.g[2] = tok /\ m.g[4] = Chars("B")

\* C11: for every node token the flowchart patterns accept as a shape
\* token, parse_node_shape applied to the label it returned gives back that
\* same label unchanged.
C11_LabelIsFixpoint ==
    (again # Nothing /\ AcceptedShape(token)) => again.label = shaped.label

\* the delimiter pairs in the order they are tested
DelimiterPairs ==
    << <<"[[", "]]", SubroutineStyle>>, <<"{{", "}}", HexagonStyle>>,
       <<"((", "))", CircleStyle>>, <<"[(", ")]", DatabaseStyle>>,
       <<">", "]", FlagStyle>>, <<"[", "]", RectangleStyle>>,
       <<"(", ")", RoundStyle>>, <<"{", "}", DiamondStyle>> >>

PairsAround(tok) ==
    {k \in DOMAIN DelimiterPairs :
        /\ Len(tok) >= Len(Chars(DelimiterPairs[k][1]))
        /\ SubSeq(tok, 1, Len(Chars(DelimiterPairs[k][1]))) = Chars(DelimiterPairs[k][1])
        /\ Len(tok) >= Len(Chars(DelimiterPairs[k][2]))
        /\ SubSeq(tok, Len(tok) - Len(Chars(DelimiterPairs[k][2])) + 1, Len(tok))
               = Chars(DelimiterPairs[k][2])}

FirstPair(tok) == CHOOSE k \in PairsAround(tok) : \A j \in PairsAround(tok) : k <= j

\* C17: parse_node_shape returns, for every token, the shape of the first
\* delimiter pair in the order [[..]], {{..}}, ((..)), [(..)], >..], [..],
\* (..), {..} whose opener is a prefix and whose closer is a suffix of the
\* token, with exactly that pair stripped from the label; a token matching
\* no pair gives the raw token as label with the default rectangle style.
C17_FirstPairStripped ==
    shaped # Nothing =>
        /\ DOMAIN shaped = {"label", "style"}
        /\ IF PairsAround(token) # {}
           THEN /\ shaped.style = DelimiterPairs[FirstPair(token)][3]
                /\ token = Chars(DelimiterPairs[FirstPair(token)][1]) \o shaped.label
                             \o Chars(DelimiterPairs[FirstPair(token)][2])
           ELSE shaped = [label |-> token, style |-> RectangleStyle]

\* a database token, whose delimiters also fit the rectangle pair, has been
\* classified
C17_DatabaseToken ==
    /\ token = Chars("[(db)]")
    /\ shaped = [label |-> Chars("db"), style |-> DatabaseStyle]
    /\ PairsAround(token) = {4, 6}

\* C12: the ER source `erDiagram`, `USER {`, `  string name`, `}`,
\* `ORDER {`, `  int id`, `}`, `USER ||--o{ ORDER : places` yields exactly
\* the 2 entities USER and ORDER with exactly 1 attribute each, and exactly
\* 1 relationship from USER to ORDER labelled "places" whose style has the
\* start glyph 'one' and the end glyph 'zero-or-many'.
C12_ExampleER ==
    (Converted /\ text = ERDiagramText) =>
        /\ result.diagram_type = "er"
        /\ [k \in 1..Len(result.nodes) |->
               <<result.nodes[k].name, result.nodes[k].attributes>>]
           = << <<Chars("USER"), <<Chars("string name")>> >>,
                <<Chars("ORDER"), <<Chars("int id")>> >> >>
        /\ Len(result.edges) = 1
        /\ result.edges[1].from = IdOf(result.nodes, "USER")
        /\ result.edges[1].to = IdOf(result.nodes, "ORDER")
        /\ result.edges[1].label = Chars("places")
        /\ Contains(Chars(result.edges[1].style), Chars("startArrow=ERone;"))
        /\ Contains(Chars(result.edges[1].style), Chars("endArrow=ERzeroToMany;"))
        /\ \A g \in {"ERmany", "ERzeroToOne"} :
               ~Contains(Chars(result.edges[1].style), Chars(g))

\* the ER source has been converted into two entity cells and one edge cell
C12_ExampleERConverted ==
    /\ Converted
    /\ text = ERDiagramText
    /\ result.raised = ""
    /\ Len(result.cells) = 3

EdgeIds(edges) == {edges[k].id : k \in 1..Len(edges)}

\* every node of the diagram d has exactly one rectangle, no edge has one
PositionsForNodes(d) ==
    /\ d.raised = ""
    /\ DOMAIN d.positions = Range(NodeIds(d.nodes))
    /\ Cardinality(DOMAIN d.positions) = Len(d.nodes)
    /\ DOMAIN d.positions \cap EdgeIds(d.edges) = {}
    /\ \A id \in DOMAIN d.positions :
           DOMAIN d.positions[id] = {"x", "y", "width", "height"}
    /\ Len(d.cells) = Len(d.nodes) + Len(d.edges)
    /\ \A k \in 1..Len(d.nodes) :
           /\ d.cells[k].id = d.nodes[k].id
           /\ d.cells[k].x = d.positions[d.nodes[k].id].x
           /\ d.cells[k].y = d.positions[d.nodes[k].id].y

\* C13: for every diagram kind and every extractor output (flowcharts with
\* cycles, with isolated nodes and with no edges included), the key set of
\* the map calculate_positions returns is exactly the set of node ids: each
\* node gets exactly one rectangle, no edge id gets one, and the
\* serializer's position lookup for a node never misses.
C13_EveryNodePlaced ==
    /\ Converted => PositionsForNodes(result)
    /\ \A i \in 1..Len(pages) : PositionsForNodes(pages[i])

\* a flowchart that is one cycle, so that no node has in-degree 0, has been
\* laid out
C13_CyclePlaced ==
    /\ Converted
    /\ text = Lines(<<"graph LR", "A --> B", "B --> A">>)
    /\ Len(result.nodes) = 2
    /\ Len(result.edges) = 2
    /\ Cardinality(DOMAIN result.positions) = 2

\* the batch has ended: its driver returned or was ended by an exception
BatchOver == pc \in {"returned", "raised"}

Written == {outputs[k].file : k \in 1..Len(outputs)}

ReportedFailed == {log[k].file : k \in {j \in 1..Len(log) : log[j].report = "Error during conversion"}}

\* C14: in a batch conversion over several files (one output per file), if
\* converting file i fails with an I/O error, the failure is caught and
\* reported for that file and every file after i in the batch is still
\* converted.
C14_BatchGoesOn ==
    BatchOver =>
        \A i \in 1..Len(files) :
            files[i].io # "ok" =>
                /\ pc # "raised"
                /\ i \in ReportedFailed
                /\ \A j \in (i + 1)..Len(files) : files[j].io = "ok" => j \in Written

\* the shape tokens the lines fed so far give the name, in source order
ShapesOf(name) ==
    LET with == SelectSeq(expect.refs, LAMBDA r : Chars(r.name) = name /\ r.shape # "")
    IN  [k \in 1..Len(with) |-> Chars(with[k].shape)]

\* the first reference to the name has no shape token
FirstBare(name) ==
    \E k \in 1..Len(expect.refs) :
        /\ Chars(expect.refs[k].name) = name
        /\ expect.refs[k].shape = ""
        /\ \A j \in 1..(k - 1) : Chars(expect.refs[j].name) # name

Look(node) == [label |-> node.label, style |-> node.style]

\* C15: in parse_mermaid_flowchart, a node first registered without a shape
\* token has its label and style upgraded in place when the same name
\* later appears with a shape token, be it as the source of an edge line,
\* as the target of an edge line or on a standalone line without an arrow,
\* and its id is unchanged by the upgrade.
C15_UpgradedInPlace ==
    kind = "flowchart" =>
        \A k \in 1..Len(parser.nodes) :
            (FirstBare(parser.nodes[k].name) /\ ShapesOf(parser.nodes[k].name) # <<>>) =>
                /\ \E j \in 1..Len(ShapesOf(parser.nodes[k].name)) :
                       Look(parser.nodes[k])
                           = parse_node_shape(ShapesOf(parser.nodes[k].name)[j])
                /\ parser.nodes[k].id = "node" \o ToString(k)

\* C16: in parse_mermaid_flowchart, once a node name has occurred with a
\* shape token, every later occurrence of that name with a different shape
\* token leaves the node's label and style unchanged (the first
\* shape-bearing occurrence wins), also when the stripped label of the
\* first token equals the node's own name.
C16_FirstShapeWins ==
    kind = "flowchart" =>
        \A k \in 1..Len(parser.nodes) :
            ShapesOf(parser.nodes[k].name) # <<>> =>
                Look(parser.nodes[k])
                    \in {parse_node_shape(ShapesOf(parser.nodes[k].name)[1]),
                         [label |-> parser.nodes[k].name, style |-> BareStyle]}

\* C20: in parse_mermaid_sequence, a line `From <arrow> To : text`, for
\* every arrow of the vocabulary ->, ->>, -.->, -->, +, - and -x, yields
\* exactly one message from From to To labelled text, and registers From
\* and then To as participants (label = name) when they are not already
\* declared.
C20_OneMessagePerLine ==
    (kind = "sequence" /\ expect.reserved = 0) =>
        /\ [k \in 1..Len(parser.nodes) |-> parser.nodes[k].name] = expect.order
        /\ Len(parser.edges) = Len(expect.messages)
        /\ \A k \in 1..Len(parser.edges) :
               /\ parser.edges[k].from = Lookup(parser.nodes, expect.messages[k].from).id
               /\ parser.edges[k].to = Lookup(parser.nodes, expect.messages[k].to).id
               /\ parser.edges[k].label = expect.messages[k].label
        /\ \A k \in 1..Len(parser.nodes) :
               parser.nodes[k].name # Chars("A") => parser.nodes[k].label = parser.nodes[k].name

\* C18: in parse_mermaid_er, every line outside an entity block of the form
\* `EntityA <cardinality> EntityB : label`, for every leading marker in
\* {||, }|, |o, }o}, every trailing marker in {||, |{, o|, o{} and every
\* run of 2 or 3 dash/dot characters, appends exactly one relationship from
\* EntityA to EntityB with that label and registers both entities if they
\* were undeclared.
C18_OneRelationshipPerLine ==
    kind = "er" =>
        /\ Len(parser.edges) = Len(expect.relationships)
        /\ \A k \in 1..Len(expect.relationships) :
               /\ HasKey(parser.nodes, expect.relationships[k].from)
               /\ HasKey(parser.nodes, expect.relationships[k].to)
               /\ parser.edges[k].from
                      = Lookup(parser.nodes, expect.relationships[k].from).id
               /\ parser.edges[k].to = Lookup(parser.nodes, expect.relationships[k].to).id
               /\ parser.edges[k].label = expect.relationships[k].label

\* the attribute lines the lines fed so far give the entity, in source order
AttributesMeant(name) ==
    LET of == SelectSeq(expect.attributes, LAMBDA a : a.entity = name)
    IN  [k \in 1..Len(of) |-> of[k].line]

\* C19: in parse_mermaid_er, after a line ending in `{` opens an entity
\* block, every following non-blank line up to the next line that is
\* exactly `}` is appended, in source order, to the attribute list of that
\* entity and of no other entity, and produces no entity or relationship;
\* after the closing `}` no line is appended as an attribute until another
\* block is opened.
C19_BlockLinesAreAttributes ==
    kind = "er" =>
        /\ expect.silent
        /\ \A k \in 1..Len(parser.nodes) :
               parser.nodes[k].attributes = AttributesMeant(parser.nodes[k].name)
        /\ \A k \in 1..Len(expect.attributes) :
               HasKey(parser.nodes, expect.attributes[k].entity)

\* C21: in parse_mermaid_sequence, every line that starts with Note, loop,
\* alt or opt is a no-op whatever text follows the keyword: the participant
\* map and the message list are the same after the line as before it.
C21_ReservedLinesAddNothing ==
    (kind = "sequence" /\ expect.reserved > 0) => expect.silent

Sentinels == {Chars("[*]"), Chars("*")}

\* the nodes of the state map that carry the label
Labelled(label) == {k \in 1..Len(parser.nodes) : parser.nodes[k].label = label}

\* every transition line fed so far has given one edge, in source order
TransitionsAligned == Len(parser.edges) = Len(expect.transitions)

\* C22: in parse_mermaid_state, the sentinel `[*]` or bare `*` on the
\* source side of a transition maps to a synthetic Start node (label a
\* filled circle) and on the target side to a synthetic End node (label a
\* hollow circle); after any sequence of transition lines the state map
\* holds at most one Start node and at most one End node, and every
\* sentinel occurrence references that one node's id.
C22_OneStartOneEnd ==
    kind = "state" =>
        /\ TransitionsAligned
        /\ Cardinality(Labelled(StartGlyph)) <= 1
        /\ Cardinality(Labelled(EndGlyph)) <= 1
        /\ \A j \in 1..Len(expect.transitions) :
               /\ expect.transitions[j].from \in Sentinels =>
                      \E k \in Labelled(StartGlyph) :
                          parser.edges[j].from = parser.nodes[k].id
               /\ expect.transitions[j].to \in Sentinels =>
                      \E k \in Labelled(EndGlyph) :
                          parser.edges[j].to = parser.nodes[k].id

\* both sentinels have occurred on their side more than once, in both
\* spellings
C22_SentinelsReused ==
    /\ kind = "state"
    /\ expect.transitions = << [from |-> Chars("[*]"), to |-> Chars("Idle")],
                               [from |-> Chars("*"), to |-> Chars("*")],
                               [from |-> Chars("Run"), to |-> Chars("[*]")] >>
    /\ Len(parser.nodes) = 4
    /\ parser.edges[1].from = parser.edges[2].from
    /\ parser.edges[2].to = parser.edges[3].to

\* the names of states that are ordinary identifiers
OrdinaryNames ==
    ({expect.transitions[j].from : j \in 1..Len(expect.transitions)}
     \cup {expect.transitions[j].to : j \in 1..Len(expect.transitions)})
    \ (Sentinels \cup {<<>>})

\* C29: in parse_mermaid_state, only sentinel occurrences map to the
\* synthetic Start/End nodes: a state whose name is an ordinary identifier,
\* a user state literally named Start or End included, is registered as its
\* own node with label equal to its name and is never merged with a
\* synthetic node.
C29_OrdinaryStatesKeepTheirName ==
    (kind = "state" /\ TransitionsAligned) =>
        /\ \A n \in OrdinaryNames :
               HasKey(parser.nodes, n) /\ Lookup(parser.nodes, n).label = n
        /\ \A j \in 1..Len(expect.transitions) :
               /\ expect.transitions[j].from \in Sentinels =>
                      \A n \in OrdinaryNames :
                          parser.edges[j].from # Lookup(parser.nodes, n).id
               /\ expect.transitions[j].to \in Sentinels =>
                      \A n \in OrdinaryNames :
                          parser.edges[j].to # Lookup(parser.nodes, n).id

\* the diagram d is a flowchart laid out by levels
LaidOutByLevels(d) == d.diagram_type = "flowchart" /\ d.edges # <<>> /\ d.raised = ""

\* every level of d is a row: one y per level, growing by the row spacing
LevelsAreRows(d) ==
    \A a, b \in DOMAIN d.positions :
        d.positions[a].y - d.positions[b].y
            = (LevelOf(d.levels, a) - LevelOf(d.levels, b)) * 180

\* every level of d is a column: one x per level, growing by the column
\* spacing
LevelsAreColumns(d) ==
    \A a, b \in DOMAIN d.positions :
        d.positions[a].x - d.positions[b].x
            = (LevelOf(d.levels, a) - LevelOf(d.levels, b)) * 220

\* C23: for a flowchart with a non-empty edge list, when the declared flow
\* direction is TD or BT every level is a horizontal row (all nodes of a
\* level share one y, and y grows with the level number by a fixed row
\* spacing), and when it is LR or RL every level is a vertical column (all
\* nodes of a level share one x, and x grows with the level number by a
\* fixed column spacing).
C23_RowsOrColumns ==
    (Converted /\ LaidOutByLevels(result)) =>
        /\ result.self.flow_direction \in {"TD", "BT"} => LevelsAreRows(result)
        /\ result.self.flow_direction \in {"LR", "RL"} => LevelsAreColumns(result)

\* calculate_positions has laid out a diagram of the given kind
Placed(diagram_type) == pc = "placed" /\ parser.diagram_type = diagram_type

\* the flowchart of the state has no edge
EdgeLess == parser.diagram_type = "flowchart" /\ parser.edges = <<>>

\* the place of the k-th node
PlaceOf(k) == result.positions[parser.nodes[k].id]

\* both layouts put every node at the same x and y
SamePlaces(p, q) ==
    /\ DOMAIN p = DOMAIN q
    /\ \A id \in DOMAIN p : p[id].x = q[id].x /\ p[id].y = q[id].y

\* C24 as stated: an edge-less flowchart is put where the ER grid or the
\* state grid puts as many nodes (same column count, same spacing)
C24_SameGridAsERState ==
    (Placed("flowchart") /\ EdgeLess) =>
        LET n == Len(parser.nodes)
        IN  \/ SamePlaces(result.positions,
                          calculate_positions(flow_direction, EntityMap(n, 0), <<>>,
                                              "er").positions)
            \/ SamePlaces(result.positions,
                          calculate_positions(flow_direction, NodeMap(n), <<>>,
                                              "state").positions)

\* the columns of the flowchart grid: the least c of 2..5 with c * c >= n,
\* and 5 if there is none
FallbackColumns(n) ==
    IF \E c \in 2..5 : c * c >= n
    THEN CHOOSE c \in 2..5 : c * c >= n /\ \A b \in 2..(c - 1) : b * b < n
    ELSE 5

\* C24 (amended): an edge-less flowchart is laid out on a grid of its own:
\* boxes of 200 x 100, the first node at (100, 100), every further node 280
\* to the right of the one before it, except that after every cols nodes
\* the next one starts a new row at x = 100, 180 lower, where cols is the
\* ceiling of the square root of the node count clamped to 2..5
C24_FallbackGrid ==
    (Placed("flowchart") /\ EdgeLess) =>
        LET n == Len(parser.nodes)
            cols == FallbackColumns(n)
        IN  /\ DOMAIN result.positions = Range(NodeIds(parser.nodes))
            /\ PlaceOf(1).x = 100 /\ PlaceOf(1).y = 100
            /\ \A k \in 1..n : PlaceOf(k).width = 200 /\ PlaceOf(k).height = 100
            /\ \A k \in 1..(n - 1) :
                  IF k % cols = 0
                  THEN PlaceOf(k + 1).x = 100 /\ PlaceOf(k + 1).y = PlaceOf(k).y + 180
                  ELSE PlaceOf(k + 1).x = PlaceOf(k).x + 280
                       /\ PlaceOf(k + 1).y = PlaceOf(k).y

\* witness for C24: an edge-less flowchart of 17 nodes is laid out in rows of
\* five, so that the sixth node starts the second row
C24_FiveColumns ==
    /\ Placed("flowchart") /\ EdgeLess
    /\ Len(parser.nodes) = 17
    /\ PlaceOf(5).x = 1220 /\ PlaceOf(5).y = 100
    /\ PlaceOf(6).x = 100 /\ PlaceOf(6).y = 280

\* a flowchart with edges has been laid out by levels
LevelsPlaced == Placed("flowchart") /\ parser.edges # <<>>

\* the number of the k-th node's level
LevelAt(k) == LevelOf(result.levels, parser.nodes[k].id)

\* where the k-th node is along its level: x in a row, y in a column
Along(k) == IF flow_direction = "TD" THEN PlaceOf(k).x ELSE PlaceOf(k).y

\* the registration number of the node with the id
Number(id) == CHOOSE k \in 1..Len(parser.nodes) : parser.nodes[k].id = id

\* C25 as stated: within every level the place along the level increases
\* with the registration number of the node
C25_RegisteredOrderInLevel ==
    LevelsPlaced =>
        \A a, b \in 1..Len(parser.nodes) :
            (LevelAt(a) = LevelAt(b) /\ a < b) => Along(a) < Along(b)

\* the edges into the k-th node
EdgesInto(k) == {e \in 1..Len(parser.edges) : parser.edges[e].to = parser.nodes[k].id}

\* edge e is gone through before edge f: its origin is in an earlier level,
\* or earlier in the same level, or it is an earlier edge of the same origin
GoneThroughBefore(e, f) ==
    LET p == Number(parser.edges[e].from)
        q == Number(parser.edges[f].from)
    IN  \/ LevelAt(p) < LevelAt(q)
        \/ LevelAt(p) = LevelAt(q) /\ Along(p) < Along(q)
        \/ p = q /\ e < f

\* the edge into the k-th node that is gone through last
LastEdgeInto(k) ==
    CHOOSE e \in EdgesInto(k) : \A f \in EdgesInto(k) \ {e} : GoneThroughBefore(f, e)

\* the k-th node got its level in the loop, after the nodes of the levels
\* before: it has an edge into it, and every such edge comes from an
\* earlier level
LevelledByEdges(k) ==
    /\ EdgesInto(k) # {}
    /\ \A e \in EdgesInto(k) : LevelAt(Number(parser.edges[e].from)) < LevelAt(k)

\* C25 (amended): the nodes without an edge into them and the nodes that the
\* loop leaves without a level (cycles) are positioned in first-registered
\* order within their level; the nodes of a level that the loop reaches over
\* edges are positioned in the order in which the last edge into each of
\* them is gone through, the origins taken level by level in their own
\* order of position and the edges of one origin in edge-list order
C25_OrderInLevel ==
    LevelsPlaced =>
        \A a, b \in 1..Len(parser.nodes) :
            (LevelAt(a) = LevelAt(b) /\ a # b) =>
                IF LevelledByEdges(a) /\ LevelledByEdges(b)
                THEN GoneThroughBefore(LastEdgeInto(a), LastEdgeInto(b))
                        <=> Along(a) < Along(b)
                ELSE a < b <=> Along(a) < Along(b)

\* witness for C25: two nodes that the loop reaches over edges share a level,
\* and the one registered later is positioned first
C25_LaterNodeFirst ==
    /\ LevelsPlaced
    /\ \E a, b \in 1..Len(parser.nodes) :
          /\ a < b /\ LevelAt(a) = LevelAt(b)
          /\ LevelledByEdges(a) /\ LevelledByEdges(b)
          /\ Along(b) < Along(a)

\* the rectangles r and s have a point in common, edges not counted
Overlap(r, s) ==
    /\ r.x < s.x + s.width /\ s.x < r.x + r.width
    /\ r.y < s.y + s.height /\ s.y < r.y + r.height

\* C27: whatever the kind, the node count and the attribute counts, no two
\* nodes of a diagram get rectangles that overlap
C27_NoOverlap ==
    pc = "placed" =>
        \A a, b \in DOMAIN result.positions :
            a # b => ~Overlap(result.positions[a], result.positions[b])

\* the origins of the edges into the node
Parents(edges, id) == {edges[k].from : k \in {j \in 1..Len(edges) : edges[j].to = id}}

\* the number of edges on the longest path of an acyclic edge list that
\* ends in the node and starts in a node without an edge into it
RECURSIVE LongestPathTo(_, _)
LongestPathTo(edges, id) ==
    IF Parents(edges, id) = {} THEN 0
    ELSE LET before == {LongestPathTo(edges, p) : p \in Parents(edges, id)}
         IN  1 + CHOOSE m \in before : \A o \in before : o <= m

\* C28: for an acyclic edge list the level returned for a node is the
\* number of edges on the longest path to it from a node of in-degree zero,
\* and the levels in use are 0, 1, ... up to the highest one, none left out
C28_LevelIsLongestPath ==
    (LevelsReturned /\ Acyclic(levelling.ids, levelling.edges)) =>
        /\ \A id \in Range(levelling.ids) :
               LevelOf(levelling.levels, id) = LongestPathTo(levelling.edges, id)
        /\ \A id \in Range(levelling.ids) :
               \A below \in 0..(LevelOf(levelling.levels, id) - 1) :
                   \E other \in Range(levelling.ids) :
                       LevelOf(levelling.levels, other) = below

\* witness for C28: levels were returned for an acyclic list in which a
\* node of level 2 also has an edge into it from a node of level 0, the
\* shorter of its two paths
C28_ShortcutBesidePath ==
    /\ LevelsReturned
    /\ Acyclic(levelling.ids, levelling.edges)
    /\ \E k \in 1..Len(levelling.edges) :
          /\ LevelOf(levelling.levels, levelling.edges[k].from) = 0
          /\ LevelOf(levelling.levels, levelling.edges[k].to) = 2

\* C30: in combined mode the output file is written only once every input
\* file has been read and converted: an output holds a page for every file
\* of the list, and when a file cannot be read or converted there is no
\* output, at no time of the call
C30_NoPartialOutput ==
    driver = "convert_multiple_files" =>
        /\ \A k \in 1..Len(outputs) :
               /\ fed = Len(files)
               /\ Len(outputs[k].pages) = Len(files)
               /\ \A i \in 1..Len(files) : files[i].io = "ok"
        /\ (\E i \in 1..Len(files) : files[i].io = "unreadable") => outputs = <<>>

\* witness for C30: the call was left at a file that cannot be read, after
\* the diagram of a file before it had been built, and nothing is written
C30_LeftAfterAPage ==
    /\ driver = "convert_multiple_files"
    /\ pc = "raised"
    /\ fed >= 1 /\ Len(pages) = fed
    /\ fed < Len(files)
    /\ files[fed + 1].io = "unreadable"
    /\ outputs = <<>>

\* the ids of the records of a dictionary or list
IdsIn(records) == {records[k].id : k \in 1..Len(records)}

\* the records have the ids prefix1, prefix2, ..., one each
NumberedFromOne(records, prefix) ==
    /\ \A j, k \in 1..Len(records) : j # k => records[j].id # records[k].id
    /\ IdsIn(records) = {prefix \o ToString(k) : k \in 1..Len(records)}

\* C26: when two conversions run at the same time on the converter the UI
\* threads share, the diagram each of them produces has pairwise distinct
\* node ids and pairwise distinct edge ids, numbered from 1, and each of its
\* edges joins node ids of the same diagram
C26_ConcurrentIdsDistinct ==
    pc = "threads" =>
        \A t \in Threads :
            Op(t) = "done" =>
                /\ NumberedFromOne(parser[t].nodes, "node")
                /\ NumberedFromOne(parser[t].edges, "edge")
                /\ \A k \in 1..Len(parser[t].edges) :
                       /\ parser[t].edges[k].from \in IdsIn(parser[t].nodes)
                       /\ parser[t].edges[k].to \in IdsIn(parser[t].nodes)

====
